---- MODULE Spec2Model ----
(***************************************************************************)
(* Clawless LLM orchestration: routing engine (llm/router), provider       *)
(* adapters (llm/anthropic, llm/openai, llm/workers-ai) and the streaming   *)
(* orchestrator (core/streaming), modelled as state machines.              *)
(***************************************************************************)
EXTENDS Integers, Sequences, FiniteSets, TLC

VARIABLES
    env,            \* Env bindings that matter: which API keys are configured
    tenantTier,     \* the tier of the tenant the request belongs to
    request,        \* StreamingOptions & {stream}: provider override, tools, stream flag
    options,        \* RoutingOptions last handed to routeRequest
    routing,        \* RoutingResult of the last routeRequest call
    pc,             \* position of the request handler
    invoked,        \* sequence of provider names whose adapter was invoked
    adapterPc,      \* position of the adapter's stream() start callback
    httpStatus,     \* status of the backend's answer to the streaming fetch
    bodyLen,        \* number of body lines the backend has delivered
    prov,           \* the adapter's ReadableStream<StreamChunk> (providerStream)
    produced,       \* history: chunks the adapter enqueued on providerStream
    pendingReads,   \* read requests outstanding on providerStream
    readResult,     \* settled result of the orchestrator's reader.read(), not yet consumed
    orchPc,         \* position of the start callback of streamChatCompletion's stream
    out,            \* streamChatCompletion's ReadableStream<StreamChunk> (stream)
    forwarded,      \* history: chunks the orchestrator enqueued on stream
    pipe,           \* pipeThrough: position and the chunk being written to the transform
    sse,            \* readable side of createSSEReStream()
    clientPull,     \* the client has a read outstanding on the response body
    received,       \* events delivered to the client
    clientEnd,      \* how the client saw the response body end
    response,       \* the Response returned by the handler
    durableMessages,\* messages written to the durable store in this turn
    backend,        \* what the adapter calls under comparison met at the backend
    completion,     \* outcome of the adapter's complete()
    toolCalls,      \* the ToolCall[] handed to executeTools
    toolPromises,   \* the promises executeTool returned, one per call
    toolResults,    \* what executeTools resolved with
    handlerCalls,   \* indexes of the calls whose handler function was invoked, in order
    allowedTools,   \* tenant.settings.allowedTools of the tenant the request belongs to
    toolMessages,   \* what toolResultsToMessages returned
    db,             \* the D1 database: the sessions and messages tables
    CACHE,          \* the KV namespace env.CACHE: the value stored under each session key
    inFlight,       \* the session-cache, database and handler calls of the requests in flight
    now,            \* Date.now(), in milliseconds
    counters,       \* the KV namespace env.CACHE: the value stored under each ratelimit key
    admits,         \* history: how many calls of rateLimitCheck returned ok at each instant
    gateway,        \* the requests the top-level fetch handler is handling
    llmRequest      \* the provider and LLMRequest.model last handed to llmStream or complete

routeVars == <<env, options, routing>>
callVars == <<backend, completion>>
toolVars == <<toolCalls, toolPromises, toolResults, handlerCalls>>
gateVars == <<now, counters, admits, gateway, llmRequest>>
storeVars == <<allowedTools, toolMessages, db, CACHE, inFlight, gateVars>>
reqVars == <<tenantTier, request, pc, invoked, response, durableMessages, callVars, toolVars,
             storeVars>>
adapterVars == <<adapterPc, httpStatus, bodyLen>>
provVars == <<prov, produced, pendingReads, readResult>>
orchVars == <<orchPc, out, forwarded>>
pipeVars == <<pipe, sse>>
clientVars == <<clientPull, received, clientEnd>>

vars == <<env, tenantTier, request, options, routing, pc, invoked, adapterPc, httpStatus,
          bodyLen, prov, produced, pendingReads, readResult, orchPc, out, forwarded,
          pipe, sse, clientPull, received, clientEnd, response, durableMessages,
          backend, completion, toolCalls, toolPromises, toolResults, handlerCalls,
          allowedTools, toolMessages, db, CACHE, inFlight, now, counters, admits,
          gateway, llmRequest>>

None == "none"

(***************************************************************************)
(* Routing engine                                                          *)
(***************************************************************************)

\* LLMProvider, in the declaration order of PROVIDERS (Object.values order)
ProviderOrder == <<"workers", "anthropic", "openai">>

Providers == {ProviderOrder[i] : i \in 1..Len(ProviderOrder)}

Tiers == {"starter", "pro", "business", "enterprise"}

\* Provider capability matrix; costPer1kTokens is in hundredths of a dollar
PROVIDERS ==
    [p \in Providers |->
        CASE p = "workers" ->
                [provider |-> "workers", quality |-> "low", costPer1kTokens |-> 0,
                 maxTokens |-> 4096, supportsTools |-> FALSE,
                 supportsStreaming |-> TRUE, requiresApiKey |-> FALSE]
          [] p = "anthropic" ->
                [provider |-> "anthropic", quality |-> "high", costPer1kTokens |-> 25,
                 maxTokens |-> 8192, supportsTools |-> TRUE,
                 supportsStreaming |-> TRUE, requiresApiKey |-> TRUE]
          [] p = "openai" ->
                [provider |-> "openai", quality |-> "high", costPer1kTokens |-> 15,
                 maxTokens |-> 16384, supportsTools |-> TRUE,
                 supportsStreaming |-> TRUE, requiresApiKey |-> TRUE]]

TIER_DEFAULTS ==
    [t \in Tiers |->
        IF t = "starter"
        THEN [defaultProvider |-> "workers", allowPremium |-> FALSE]
        ELSE [defaultProvider |-> "anthropic", allowPremium |-> TRUE]]

\* getProvider(name).isAvailable(env)
IsProviderAvailable(p, e) ==
    CASE p = "anthropic" -> e.ANTHROPIC_API_KEY
      [] p = "openai" -> e.OPENAI_API_KEY
      [] OTHER -> TRUE

GetDefaultModel(p) ==
    CASE p = "workers" -> "@cf/meta/llama-3.1-8b-instruct"
      [] p = "anthropic" -> "claude-3-5-haiku-20241022"
      [] p = "openai" -> "gpt-4o-mini"

InferTierFromQuotasLow(o) ==
    IF ~o.hasQuotas THEN "starter"
    ELSE IF o.monthlyMessages >= 1000000 THEN "enterprise"
    ELSE IF o.monthlyMessages >= 100000 THEN "business"
    ELSE IF o.monthlyMessages >= 1000 THEN "pro"
    ELSE "starter"

\* o.hasQuotas is FALSE when options.tenantQuotas is undefined
InferTierFromQuotas(o) ==
    IF ~o.hasQuotas THEN "starter"
    ELSE IF o.monthlyMessages >= 1000000 THEN "enterprise"
    ELSE IF o.monthlyMessages >= 100000 THEN "business"
    ELSE IF o.monthlyMessages >= 10000 THEN "pro"
    ELSE "starter"

\* options.tenantTier || inferTierFromQuotas(options.tenantQuotas)
EffectiveTier(o) ==
    IF o.tenantTier # None THEN o.tenantTier ELSE InferTierFromQuotas(o)

ReasonUnavailable == "Requested provider unavailable, using Workers AI fallback"
ReasonTier == "Requested provider not available on starter tier"
ReasonRequested == "Using requested provider"
ReasonNoCandidates == "No suitable providers found, using Workers AI fallback"
ReasonAuto(preference) ==
    CASE preference = "cost" -> "Auto-selected based on cost preference"
      [] preference = "quality" -> "Auto-selected based on quality preference"
      [] OTHER -> "Auto-selected based on balanced preference"

WorkersFallbackFp8(reason) ==
    [provider |-> "workers", model |-> "@cf/meta/llama-3.1-8b-instruct-fp8-fast",
     reason |-> reason]

WorkersFallback(reason) ==
    [provider |-> "workers", model |-> "@cf/meta/llama-3.1-8b-instruct", reason |-> reason]

\* a selection whose default mode is 'cost'
PreferenceCost(o) ==
    IF o.qualityPreference # None THEN o.qualityPreference ELSE "cost"

\* options.qualityPreference || 'balanced'
Preference(o) ==
    IF o.qualityPreference # None THEN o.qualityPreference ELSE "balanced"

SurvivesNoKeyCheck(p, o, tierConfig, e) ==
    /\ ~(~tierConfig.allowPremium /\ p.costPer1kTokens > 0)
    /\ ~(o.requiresTools /\ ~p.supportsTools)
    /\ ~(o.requiresStreaming /\ ~p.supportsStreaming)
    /\ ~(o.maxTokens # 0 /\ o.maxTokens > p.maxTokens)

SurvivesNoToolsCheck(p, o, tierConfig, e) ==
    /\ ~(~tierConfig.allowPremium /\ p.costPer1kTokens > 0)
    /\ ~(p.requiresApiKey /\ ~IsProviderAvailable(p.provider, e))
    /\ ~(o.requiresStreaming /\ ~p.supportsStreaming)
    /\ ~(o.maxTokens # 0 /\ o.maxTokens > p.maxTokens)

\* the filter callback of selectBestProvider
Survives(p, o, tierConfig, e) ==
    /\ ~(~tierConfig.allowPremium /\ p.costPer1kTokens > 0)
    /\ ~(p.requiresApiKey /\ ~IsProviderAvailable(p.provider, e))
    /\ ~(o.requiresTools /\ ~p.supportsTools)
    /\ ~(o.requiresStreaming /\ ~p.supportsStreaming)
    /\ ~(o.maxTokens # 0 /\ o.maxTokens > p.maxTokens)

\* Object.values(PROVIDERS).filter(...): declaration order is kept
Candidates(o, tierConfig, e) ==
    SelectSeq([i \in 1..Len(ProviderOrder) |-> PROVIDERS[ProviderOrder[i]]],
              LAMBDA p : Survives(p, o, tierConfig, e))

QualityOrder(q) == CASE q = "high" -> 3 [] q = "medium" -> 2 [] q = "low" -> 1

\* a comparator whose 'quality' mode sorts ascending
CompareQualityAscending(a, b, preference, tierConfig) ==
    CASE preference = "cost" -> a.costPer1kTokens - b.costPer1kTokens
      [] preference = "quality" -> QualityOrder(a.quality) - QualityOrder(b.quality)
      [] preference = "balanced" ->
            IF a.provider = tierConfig.defaultProvider THEN -1
            ELSE IF b.provider = tierConfig.defaultProvider THEN 1
            ELSE LET aScore == IF a.quality = "high" THEN 2 ELSE 1
                     bScore == IF b.quality = "high" THEN 2 ELSE 1
                 IN b.costPer1kTokens * bScore - a.costPer1kTokens * aScore
      [] OTHER -> 0

\* the comparator handed to candidates.sort
Compare(a, b, preference, tierConfig) ==
    CASE preference = "cost" -> a.costPer1kTokens - b.costPer1kTokens
      [] preference = "quality" -> QualityOrder(b.quality) - QualityOrder(a.quality)
      [] preference = "balanced" ->
            IF a.provider = tierConfig.defaultProvider THEN -1
            ELSE IF b.provider = tierConfig.defaultProvider THEN 1
            ELSE LET aScore == IF a.quality = "high" THEN 2 ELSE 1
                     bScore == IF b.quality = "high" THEN 2 ELSE 1
                 IN b.costPer1kTokens * bScore - a.costPer1kTokens * aScore
      [] OTHER -> 0

\* Array.prototype.sort is stable: x goes after every element it does not precede
RECURSIVE InsertSorted(_, _, _, _)
InsertSorted(x, s, preference, tierConfig) ==
    IF s = <<>> THEN <<x>>
    ELSE IF Compare(x, Head(s), preference, tierConfig) < 0 THEN <<x>> \o s
    ELSE <<Head(s)>> \o InsertSorted(x, Tail(s), preference, tierConfig)

RECURSIVE SortCandidates(_, _, _)
SortCandidates(s, preference, tierConfig) ==
    IF s = <<>> THEN <<>>
    ELSE InsertSorted(s[Len(s)],
                      SortCandidates(SubSeq(s, 1, Len(s) - 1), preference, tierConfig),
                      preference, tierConfig)

SelectBestProvider(o, tierConfig, e) ==
    LET preference == Preference(o)
        candidates == Candidates(o, tierConfig, e)
    IN IF Len(candidates) = 0 THEN WorkersFallback(ReasonNoCandidates)
       ELSE LET selected == SortCandidates(candidates, preference, tierConfig)[1]
            IN [provider |-> selected.provider,
                model |-> GetDefaultModel(selected.provider),
                reason |-> ReasonAuto(preference)]

RouteRequestNoTierCheck(o, e) ==
    LET tierConfig == TIER_DEFAULTS[EffectiveTier(o)]
    IN IF o.requestedProvider # None
       THEN LET provider == PROVIDERS[o.requestedProvider]
            IN IF provider.requiresApiKey /\ ~IsProviderAvailable(provider.provider, e)
               THEN WorkersFallback(ReasonUnavailable)
               ELSE [provider |-> provider.provider,
                     model |-> GetDefaultModel(provider.provider),
                     reason |-> ReasonRequested]
       ELSE SelectBestProvider(o, tierConfig, e)

RouteRequest(o, e) ==
    LET tierConfig == TIER_DEFAULTS[EffectiveTier(o)]
    IN IF o.requestedProvider # None
       THEN LET provider == PROVIDERS[o.requestedProvider]
            IN IF provider.requiresApiKey /\ ~IsProviderAvailable(provider.provider, e)
               THEN WorkersFallback(ReasonUnavailable)
               ELSE IF ~tierConfig.allowPremium /\ provider.costPer1kTokens > 0
               THEN WorkersFallback(ReasonTier)
               ELSE [provider |-> provider.provider,
                     model |-> GetDefaultModel(provider.provider),
                     reason |-> ReasonRequested]
       ELSE SelectBestProvider(o, tierConfig, e)

IsProviderAllowed(p, tier, e) ==
    /\ ~(~TIER_DEFAULTS[tier].allowPremium /\ PROVIDERS[p].costPer1kTokens > 0)
    /\ ~(PROVIDERS[p].requiresApiKey /\ ~IsProviderAvailable(p, e))

(***************************************************************************)
(* Web streams: a ReadableStream with a default controller                 *)
(***************************************************************************)

NewStream == [state |-> "readable", queue |-> <<>>, closeRequested |-> FALSE]

\* controller.enqueue(c) with no read request waiting
RSEnqueue(s, c) == [s EXCEPT !.queue = Append(@, c)]

\* controller.close(): the stream closes once its queue is drained
RSClose(s) ==
    [s EXCEPT !.closeRequested = TRUE,
              !.state = IF s.queue = <<>> THEN "closed" ELSE @]

\* controller.error(e): no effect unless readable; the queue is reset
RSError(s) ==
    IF s.state = "readable" THEN [s EXCEPT !.state = "errored", !.queue = <<>>] ELSE s

\* a read() that finds a queued chunk takes it
RSDequeue(s) ==
    [s EXCEPT !.queue = Tail(@),
              !.state = IF Tail(s.queue) = <<>> /\ s.closeRequested THEN "closed" ELSE @]

NoRead == [kind |-> "none"]
ReadChunk(c) == [kind |-> "chunk", value |-> c]
ReadDone == [kind |-> "done"]
ReadRejected == [kind |-> "rejected"]

(***************************************************************************)
(* Provider adapters                                                       *)
(***************************************************************************)

\* bound: longest content the edge model answers with
MaxContentLen == 21

\* bound: most lines a premium backend writes on a streaming body
MaxLines == 3

\* chunkSize of WorkersAIProvider.stream
ChunkSize == 10

Min(a, b) == IF a < b THEN a ELSE b

\* usage of a StreamChunk that carries none
NoUsage == -1

\* StreamChunk without usage; content <<>> stands for a delta without content
Chunk(content, finishReason) ==
    [content |-> content, finishReason |-> finishReason, usage |-> NoUsage]

\* the final StreamChunk of WorkersAIProvider.stream: { delta: {}, finishReason, usage }
UsageChunk(finishReason, usage) ==
    [content |-> <<>>, finishReason |-> finishReason, usage |-> usage]

\* a completion's content: character i is the number i
Content(len) == [i \in 1..len |-> i]

\* bound: most tool calls in one answer of a backend
MaxAnswerToolCalls == 2

\* bound: longest piece of content a premium backend puts in one streaming event
MaxPieceLen == 2

\* bound: length of the placeholder content of _simulateResponse (the text is longer)
SimulatedLen == 12

\* completionTokens of _simulateResponse
SimulatedTokens == 50

\* token totals a backend reports
UsageSamples == {0, 30}

\* how the backend call goes: it answers, it cannot be reached (the call rejects), it
\* answers with a non-success status, it answers with a body that does not parse
Faults == {"none", "unreachable", "status", "malformed"}

\* what an adapter call meets: the deployment's ENVIRONMENT, whether env carries an
\* AI binding, how the call goes, and the answer the backend holds (its content
\* length, reported usage, tool calls, and the size of the pieces it streams)
Backends ==
    [ENVIRONMENT : {"development", "production"}, AI : BOOLEAN, fault : Faults,
     contentLen : 0..MaxContentLen, usage : UsageSamples,
     toolCalls : 0..MaxAnswerToolCalls, pieceLen : 1..MaxPieceLen]

NoBackend == [fault |-> None]

NoCompletion == [kind |-> "none"]

\* complete() rejected
CompletionError == [kind |-> "error"]

\* CompletionResult; simulated tells the '[Workers AI Simulation]' placeholder text
CompletionResult(content, calls, usage, simulated) ==
    [kind |-> "result", content |-> content, toolCalls |-> calls,
     finishReason |-> "stop", usage |-> usage, simulated |-> simulated]

\* the tool calls of an answer, by id
AnswerToolCalls(n) == [i \in 1..n |-> i]

\* WorkersAIProvider._parseResponse: content, usage; no tool calls
WorkersParseResponse(b) == CompletionResult(Content(b.contentLen), <<>>, b.usage, FALSE)

\* WorkersAIProvider._simulateResponse
WorkersSimulateResponse ==
    CompletionResult(Content(SimulatedLen), <<>>, SimulatedTokens, TRUE)

\* WorkersAIProvider._complete: the AI binding's answer if env has the binding and
\* run() and the parse succeed; the simulated response if the binding is absent
\* and, from the catch block, on any failure
WorkersComplete(b) ==
    IF b.AI /\ b.fault = "none" THEN WorkersParseResponse(b) ELSE WorkersSimulateResponse

\* AnthropicProvider._complete, OpenAIProvider._complete: throw without the API key,
\* when fetch rejects, on !response.ok and when the body does not parse
PremiumComplete(p, e, b) ==
    IF ~IsProviderAvailable(p, e) \/ b.fault # "none"
    THEN CompletionError
    ELSE CompletionResult(Content(b.contentLen), AnswerToolCalls(b.toolCalls), b.usage,
                          FALSE)

\* every result _complete of the Workers AI adapter can resolve with
WorkersResults == {WorkersComplete(b) : b \in Backends}

\* complete(providerName, options, env) of the llm module
Complete(p, e, b) ==
    IF p = "workers" THEN WorkersComplete(b) ELSE PremiumComplete(p, e, b)

\* the chunks WorkersAIProvider.stream enqueues for a completion result
RECURSIVE WorkersSlices(_, _)
WorkersSlices(content, i) ==
    IF i > Len(content) THEN <<>>
    ELSE <<Chunk(SubSeq(content, i, Min(i + ChunkSize - 1, Len(content))), None)>>
         \o WorkersSlices(content, i + ChunkSize)

WorkersChunks(result) ==
    WorkersSlices(result.content, 1) \o <<UsageChunk(result.finishReason, result.usage)>>

LineKinds == {"delta", "stop", "done", "garbage"}

\* what the premium adapters' line loop enqueues for one body line: a data line
\* with a content delta, a data line that ends the message, the [DONE] marker, or
\* a line that is no data line or no JSON (skipped)
LineChunks(kind, n) ==
    CASE kind = "delta" -> <<Chunk(<<n>>, None)>>
      [] kind = "stop" -> <<Chunk(<<>>, "stop")>>
      [] kind = "done" -> <<Chunk(<<>>, "stop")>>
      [] OTHER -> <<>>

\* content cut into the pieces of n characters the backend streams
RECURSIVE Pieces(_, _, _)
Pieces(content, i, n) ==
    IF i > Len(content) THEN <<>>
    ELSE <<SubSeq(content, i, Min(i + n - 1, Len(content)))>> \o Pieces(content, i + n, n)

StreamEvent(type, text) == [type |-> type, text |-> text]

\* AnthropicStreamChunk: the events of a streamed message, in the order of the
\* type's declaration, one content_block_delta per piece of text
AnthropicEvents(b) ==
    LET pieces == Pieces(Content(b.contentLen), 1, b.pieceLen)
    IN <<StreamEvent("message_start", <<>>), StreamEvent("content_block_start", <<>>)>>
       \o [i \in 1..Len(pieces) |-> StreamEvent("content_block_delta", pieces[i])]
       \o <<StreamEvent("content_block_stop", <<>>), StreamEvent("message_delta", <<>>),
            StreamEvent("message_stop", <<>>)>>

\* AnthropicProvider._parseStreamChunk
AnthropicParseStreamChunk(data) ==
    IF data.type = "message_stop" THEN Chunk(<<>>, "stop")
    ELSE IF data.type = "content_block_delta" THEN Chunk(data.text, None)
    ELSE Chunk(<<>>, None)

StreamLine(content, finish_reason) ==
    [done |-> FALSE, content |-> content, finish_reason |-> finish_reason]

\* the data line 'data: [DONE]'
DoneLine == [done |-> TRUE, content |-> <<>>, finish_reason |-> None]

\* OpenAIStreamChunk: the data lines of a streamed completion: one per piece of
\* content, the one that carries finish_reason, then [DONE]
OpenAILines(b) ==
    LET pieces == Pieces(Content(b.contentLen), 1, b.pieceLen)
    IN [i \in 1..Len(pieces) |-> StreamLine(pieces[i], None)]
       \o <<StreamLine(<<>>, "stop"), DoneLine>>

\* OpenAIProvider._parseStreamChunk: finish_reason || null, content if truthy
OpenAIParseStreamChunk(data) == Chunk(data.content, data.finish_reason)

\* the body of the for loop over lines in OpenAIProvider.stream
OpenAILineChunk(line) ==
    IF line.done THEN Chunk(<<>>, "stop") ELSE OpenAIParseStreamChunk(line)

\* the chunks a ReadableStream delivered and how it ended
StreamOutcome(chunks, end) == [chunks |-> chunks, end |-> end]

\* AnthropicProvider.stream, OpenAIProvider.stream: the start callback rejects
\* (stream errored) if _streamComplete throws for the missing key or fetch rejects;
\* the answer's status is not looked at, and an error body or an unparsable one
\* holds no line that yields a chunk
PremiumStream(p, e, b) ==
    IF ~IsProviderAvailable(p, e) \/ b.fault = "unreachable"
    THEN StreamOutcome(<<>>, "errored")
    ELSE IF b.fault # "none"
    THEN StreamOutcome(<<>>, "closed")
    ELSE IF p = "anthropic"
    THEN LET events == AnthropicEvents(b)
         IN StreamOutcome([i \in 1..Len(events) |-> AnthropicParseStreamChunk(events[i])],
                          "closed")
    ELSE LET lines == OpenAILines(b)
         IN StreamOutcome([i \in 1..Len(lines) |-> OpenAILineChunk(lines[i])], "closed")

\* stream(providerName, options, env) of the llm module, as the chunk sequence the
\* returned stream delivers
Stream(p, e, b) ==
    IF p = "workers"
    THEN StreamOutcome(WorkersChunks(WorkersComplete(b)), "closed")
    ELSE PremiumStream(p, e, b)

\* controller.enqueue of cs on providerStream, then controller.close() if close:
\* a waiting read request takes the first chunk (or the close) directly
ProvPush(cs, close) ==
    /\ produced' = produced \o cs
    /\ IF pendingReads > 0 /\ cs # <<>>
       THEN /\ readResult' = ReadChunk(Head(cs))
            /\ pendingReads' = pendingReads - 1
            /\ prov' = IF close
                       THEN RSClose([prov EXCEPT !.queue = @ \o Tail(cs)])
                       ELSE [prov EXCEPT !.queue = @ \o Tail(cs)]
       ELSE IF pendingReads > 0 /\ close
       THEN /\ readResult' = ReadDone
            /\ pendingReads' = pendingReads - 1
            /\ prov' = RSClose(prov)
       ELSE /\ UNCHANGED <<readResult, pendingReads>>
            /\ prov' = IF close
                       THEN RSClose([prov EXCEPT !.queue = @ \o cs])
                       ELSE [prov EXCEPT !.queue = @ \o cs]

\* controller.error on providerStream (the start promise rejected)
ProvError ==
    /\ prov' = RSError(prov)
    /\ IF prov.state = "readable" /\ pendingReads > 0
       THEN readResult' = ReadRejected /\ pendingReads' = pendingReads - 1
       ELSE UNCHANGED <<readResult, pendingReads>>
    /\ UNCHANGED produced

\* WorkersAIProvider.stream: _complete resolves (AI binding or simulation), the
\* result is sliced into chunks, and the stream closes after the final chunk
WorkersResolve ==
    /\ adapterPc = "completing"
    /\ \E result \in WorkersResults : ProvPush(WorkersChunks(result), TRUE)
    /\ adapterPc' = "finished"
    /\ UNCHANGED <<routeVars, reqVars, httpStatus, bodyLen, orchVars, pipeVars, clientVars>>

\* premium stream(): await self._streamComplete(...) resolves with the backend's
\* answer; its status is not looked at
AdapterFetchResolve ==
    /\ adapterPc = "fetching"
    /\ \E status \in {200, 500} : httpStatus' = status
    /\ adapterPc' = "reading"
    /\ UNCHANGED <<routeVars, reqVars, bodyLen, provVars, orchVars, pipeVars, clientVars>>

\* premium stream(): fetch rejects, so start() rejects and the stream is errored
AdapterFetchReject ==
    /\ adapterPc = "fetching"
    /\ ProvError
    /\ adapterPc' = "failed"
    /\ UNCHANGED <<routeVars, reqVars, httpStatus, bodyLen, orchVars, pipeVars, clientVars>>

\* premium stream(): reader.read() delivers a line of the body; an error answer's
\* body holds no data line
AdapterBodyLine ==
    /\ adapterPc = "reading"
    /\ bodyLen < MaxLines
    /\ \E kind \in (IF httpStatus = 200 THEN LineKinds ELSE {"garbage"}) :
          ProvPush(LineChunks(kind, bodyLen + 1), FALSE)
    /\ bodyLen' = bodyLen + 1
    /\ UNCHANGED <<routeVars, reqVars, adapterPc, httpStatus, orchVars, pipeVars, clientVars>>

\* premium stream(): reader.read() reports done; finally { controller.close() }
AdapterBodyEnd ==
    /\ adapterPc = "reading"
    /\ ProvPush(<<>>, TRUE)
    /\ adapterPc' = "finished"
    /\ UNCHANGED <<routeVars, reqVars, httpStatus, bodyLen, orchVars, pipeVars, clientVars>>

\* premium stream(): reader.read() rejects; finally { controller.close() } runs
\* and the error leaves start()
AdapterBodyError ==
    /\ adapterPc = "reading"
    /\ ProvPush(<<>>, TRUE)
    /\ adapterPc' = "rethrown"
    /\ UNCHANGED <<routeVars, reqVars, httpStatus, bodyLen, orchVars, pipeVars, clientVars>>

\* the rejection of start() reaches the stream: controller.error
AdapterStartRejected ==
    /\ adapterPc = "rethrown"
    /\ ProvError
    /\ adapterPc' = "failed"
    /\ UNCHANGED <<routeVars, reqVars, httpStatus, bodyLen, orchVars, pipeVars, clientVars>>

(***************************************************************************)
(* Streaming orchestrator: streamChatCompletion                            *)
(***************************************************************************)

\* reader.read() on providerStream: settled at once from the queue or the stream's
\* state, else a read request waits
IssueRead ==
    IF prov.queue # <<>>
    THEN /\ readResult' = ReadChunk(Head(prov.queue))
         /\ prov' = RSDequeue(prov)
         /\ UNCHANGED pendingReads
    ELSE IF prov.state = "closed"
    THEN readResult' = ReadDone /\ UNCHANGED <<prov, pendingReads>>
    ELSE IF prov.state = "errored"
    THEN readResult' = ReadRejected /\ UNCHANGED <<prov, pendingReads>>
    ELSE /\ readResult' = NoRead
         /\ pendingReads' = pendingReads + 1
         /\ UNCHANGED prov

IdlePipe == [pc |-> "ready", inflight |-> <<>>]

\* controller.enqueue(value) on stream: a waiting read of the pipe takes it directly
OutEnqueue(value) ==
    IF pipe.pc = "reading"
    THEN pipe' = [pc |-> "writing", inflight |-> <<value>>] /\ UNCHANGED out
    ELSE out' = RSEnqueue(out, value) /\ UNCHANGED pipe

\* the loop body after await reader.read() gave a chunk: enqueue it, read again
OrchEnqueue ==
    /\ orchPc = "looping"
    /\ readResult.kind = "chunk"
    /\ out.state = "readable"
    /\ OutEnqueue(readResult.value)
    /\ forwarded' = Append(forwarded, readResult.value)
    /\ IssueRead
    /\ UNCHANGED <<routeVars, reqVars, adapterVars, produced, orchPc, sse, clientVars>>

\* done: break; controller.close()
OrchClose ==
    /\ orchPc = "looping"
    /\ readResult.kind = "done"
    /\ out.state = "readable"
    /\ out' = RSClose(out)
    /\ pipe' = IF pipe.pc = "reading" THEN [pipe EXCEPT !.pc = "sawClose"] ELSE pipe
    /\ orchPc' = "closed"
    /\ readResult' = NoRead
    /\ UNCHANGED <<routeVars, reqVars, adapterVars, prov, produced, pendingReads,
                   forwarded, sse, clientVars>>

\* catch (error): console.error; controller.error(error)
OrchCatch ==
    /\ orchPc = "looping"
    /\ readResult.kind = "rejected"
    /\ out' = RSError(out)
    /\ pipe' = IF pipe.pc = "reading" THEN [pipe EXCEPT !.pc = "sawError"] ELSE pipe
    /\ orchPc' = "caught"
    /\ readResult' = NoRead
    /\ UNCHANGED <<routeVars, reqVars, adapterVars, prov, produced, pendingReads,
                   forwarded, sse, clientVars>>

(***************************************************************************)
(* stream.pipeThrough(createSSEReStream()) and the client                  *)
(***************************************************************************)

DoneEvent == [kind |-> "done"]
ErrorEvent == [kind |-> "error"]

\* `data: ${JSON.stringify(chunk)}\n\n`
SSEEvent(chunk) == [kind |-> "data", data |-> chunk]

TransformTwice(chunk) == <<SSEEvent(chunk), SSEEvent(chunk)>>

\* what transform(chunk, controller) enqueues
Transform(chunk) == <<SSEEvent(chunk)>>

FlushNothing == <<>>

\* what flush(controller) enqueues: 'data: [DONE]\n\n'
Flush == <<DoneEvent>>

\* enqueue events on the transform's readable side, then close it if close: a
\* waiting read of the client takes the first event (or the close) directly
SsePush(events, close) ==
    IF clientPull /\ events # <<>>
    THEN /\ received' = Append(received, Head(events))
         /\ clientPull' = FALSE
         /\ sse' = IF close
                   THEN RSClose([sse EXCEPT !.queue = @ \o Tail(events)])
                   ELSE [sse EXCEPT !.queue = @ \o Tail(events)]
         /\ UNCHANGED clientEnd
    ELSE IF clientPull /\ close
    THEN /\ clientEnd' = "closed"
         /\ clientPull' = FALSE
         /\ sse' = RSClose(sse)
         /\ UNCHANGED received
    ELSE /\ sse' = IF close
                   THEN RSClose([sse EXCEPT !.queue = @ \o events])
                   ELSE [sse EXCEPT !.queue = @ \o events]
         /\ UNCHANGED <<received, clientPull, clientEnd>>

\* pipeTo reads stream when the transform's writable side has room
PipeRead ==
    /\ pipe.pc = "ready"
    /\ IF out.queue # <<>>
       THEN /\ pipe' = [pc |-> "writing", inflight |-> <<Head(out.queue)>>]
            /\ out' = RSDequeue(out)
       ELSE /\ pipe' = [pipe EXCEPT !.pc = CASE out.state = "closed" -> "sawClose"
                                            [] out.state = "errored" -> "sawError"
                                            [] OTHER -> "reading"]
            /\ UNCHANGED out
    /\ UNCHANGED <<routeVars, reqVars, adapterVars, provVars, orchPc, forwarded, sse,
                   clientVars>>

\* the write of the chunk in flight: transform() runs once the readable side is pulled
PipeTransform ==
    /\ pipe.pc = "writing"
    /\ clientPull
    /\ SsePush(Transform(pipe.inflight[1]), FALSE)
    /\ pipe' = IdlePipe
    /\ UNCHANGED <<routeVars, reqVars, adapterVars, provVars, orchVars>>

\* stream closed: pipeTo closes the writable side, flush() runs, the readable closes
PipeClose ==
    /\ pipe.pc = "sawClose"
    /\ SsePush(Flush, TRUE)
    /\ pipe' = [pipe EXCEPT !.pc = "done"]
    /\ UNCHANGED <<routeVars, reqVars, adapterVars, provVars, orchVars>>

\* stream errored: pipeTo aborts the writable side, which errors the readable side
PipeAbort ==
    /\ pipe.pc = "sawError"
    /\ sse' = RSError(sse)
    /\ IF clientPull
       THEN clientEnd' = "errored" /\ clientPull' = FALSE
       ELSE UNCHANGED <<clientEnd, clientPull>>
    /\ pipe' = [pipe EXCEPT !.pc = "done"]
    /\ UNCHANGED <<routeVars, reqVars, adapterVars, provVars, orchVars, received>>

\* the client reads the response body
ClientRead ==
    /\ pc = "streaming"
    /\ clientEnd = "open"
    /\ ~clientPull
    /\ IF sse.queue # <<>>
       THEN /\ received' = Append(received, Head(sse.queue))
            /\ sse' = RSDequeue(sse)
            /\ UNCHANGED <<clientPull, clientEnd>>
       ELSE IF sse.state = "closed"
       THEN clientEnd' = "closed" /\ UNCHANGED <<received, sse, clientPull>>
       ELSE IF sse.state = "errored"
       THEN clientEnd' = "errored" /\ UNCHANGED <<received, sse, clientPull>>
       ELSE clientPull' = TRUE /\ UNCHANGED <<received, sse, clientEnd>>
    /\ UNCHANGED <<routeVars, reqVars, adapterVars, provVars, orchVars, pipe>>

(***************************************************************************)
(* Request handlers                                                        *)
(***************************************************************************)

NoRouting == [provider |-> None, model |-> None, reason |-> None]

\* executeTools has not resolved
NotReturned == [state |-> "pending", results |-> <<>>]
NoResponse == [status |-> 0, provider |-> None, error |-> None]

\* the RoutingOptions streamChatCompletion and completeChat build: no tenantTier,
\* no tenantQuotas, no qualityPreference, no maxTokens
HandlerOptions(req, streaming) ==
    [tenantTier |-> None, hasQuotas |-> FALSE, monthlyMessages |-> 0,
     requestedProvider |-> req.provider, requiresTools |-> req.hasTools,
     requiresStreaming |-> streaming, qualityPreference |-> None, maxTokens |-> 0]

\* streamChatCompletion up to the return of the Response: route, build stream (its
\* start callback calls llmStream and issues the first read), pipe it through
StartStream(o) ==
    /\ options' = o
    /\ routing' = RouteRequest(o, env)
    /\ invoked' = Append(invoked, routing'.provider)
    /\ adapterPc' = IF routing'.provider = "workers" THEN "completing" ELSE "fetching"
    /\ prov' = NewStream
    /\ pendingReads' = pendingReads + 1
    /\ readResult' = NoRead
    /\ orchPc' = "looping"
    /\ out' = NewStream
    /\ pipe' = IdlePipe
    /\ sse' = NewStream
    /\ pc' = "streaming"
    /\ response' = [status |-> 200, provider |-> None, error |-> None]
    /\ UNCHANGED <<storeVars, env, tenantTier, request, durableMessages, callVars,
                   toolVars,
                   httpStatus, bodyLen, produced, forwarded, clientVars>>

\* handleChatCompletion with options.stream set
HandleStream ==
    /\ pc = "start"
    /\ request.stream
    /\ StartStream(HandlerOptions(request, TRUE))

\* completeChat when complete() throws instead of being caught
CompleteChatResponseUncaught(p, result) ==
    [status |-> 200, provider |-> p, error |-> None]

\* the Response completeChat returns: the result's message, or from the catch block
\* { error: { type: 'llm_error', message } } with status 502
CompleteChatResponse(p, result) ==
    IF result.kind = "result"
    THEN [status |-> 200, provider |-> p, error |-> None]
    ELSE [status |-> 502, provider |-> None, error |-> "llm_error"]

\* completeChat: route, await complete() once, build the Response
CompleteChat(o, b) ==
    /\ options' = o
    /\ routing' = RouteRequest(o, env)
    /\ invoked' = Append(invoked, routing'.provider)
    /\ completion' = Complete(routing'.provider, env, b)
    /\ response' = CompleteChatResponse(routing'.provider, completion')
    /\ pc' = "done"
    /\ UNCHANGED <<storeVars, env, tenantTier, request, durableMessages, backend,
                   toolVars,
                   adapterVars, provVars, orchVars, pipeVars, clientVars>>

\* handleChatCompletion without options.stream: completeChat
HandleComplete ==
    /\ pc = "start"
    /\ ~request.stream
    /\ \E b \in Backends : CompleteChat(HandlerOptions(request, FALSE), b)

\* RoutingOptions as streamChatCompletion would build them with the tenant's tier
StreamOptions ==
    [tenantTier : Tiers, hasQuotas : {FALSE}, monthlyMessages : {0},
     requestedProvider : Providers \cup {None}, requiresTools : BOOLEAN,
     requiresStreaming : {TRUE}, qualityPreference : {None}, maxTokens : {0}]

\* the stream of streamChatCompletion for any decision routeRequest can return
StreamBody ==
    /\ pc = "start"
    /\ \E o \in StreamOptions : StartStream(o)

(***************************************************************************)
(* Specifications                                                          *)
(***************************************************************************)

Envs == [ANTHROPIC_API_KEY : BOOLEAN, OPENAI_API_KEY : BOOLEAN]

Requests == [provider : Providers \cup {None}, hasTools : BOOLEAN, stream : BOOLEAN]

\* nothing has run yet
IdlePipeline ==
    /\ pc = "start"
    /\ routing = NoRouting
    /\ invoked = <<>>
    /\ adapterPc = "idle"
    /\ httpStatus = 0
    /\ bodyLen = 0
    /\ prov = NewStream
    /\ produced = <<>>
    /\ pendingReads = 0
    /\ readResult = NoRead
    /\ orchPc = "idle"
    /\ out = NewStream
    /\ forwarded = <<>>
    /\ pipe = IdlePipe
    /\ sse = NewStream
    /\ clientPull = FALSE
    /\ received = <<>>
    /\ clientEnd = "open"
    /\ response = NoResponse
    /\ durableMessages = <<>>
    /\ backend = NoBackend
    /\ completion = NoCompletion
    /\ toolPromises = <<>>
    /\ handlerCalls = <<>>

\* DEFAULT_SETTINGS.allowedTools
DefaultAllowedTools == {"sessions_list", "sessions_send"}

\* no request is at the gateway, nothing was handed to an adapter
IdleGate ==
    /\ now = 0
    /\ counters = <<>>
    /\ admits = <<>>
    /\ gateway = <<>>
    /\ llmRequest = [provider |-> None, model |-> None]

\* no session-cache, database or handler call is in flight, both stores are empty
IdleStore ==
    /\ IdleGate
    /\ toolMessages = <<>>
    /\ db = [sessions |-> <<>>, messages |-> <<>>]
    /\ CACHE = <<>>
    /\ inFlight = <<>>

IdleRequest ==
    /\ options = HandlerOptions([provider |-> None, hasTools |-> FALSE], FALSE)
    /\ toolCalls = <<>>
    /\ toolResults = NotReturned
    /\ allowedTools = DefaultAllowedTools
    /\ IdleStore
    /\ IdlePipeline

\* handleChatCompletion as the code calls routeRequest
Init ==
    /\ env \in Envs
    /\ tenantTier \in Tiers
    /\ request \in Requests
    /\ IdleRequest

\* every decision the handlers obtain is workers (OnlyWorkersInvoked), so the steps
\* of the premium adapters and the catch block are not steps of Next
Next ==
    \/ HandleStream
    \/ HandleComplete
    \/ WorkersResolve
    \/ OrchEnqueue
    \/ OrchClose
    \/ PipeRead
    \/ PipeTransform
    \/ PipeClose
    \/ ClientRead

Spec == Init /\ [][Next]_vars

\* the handlers invoke no adapter but Workers AI
OnlyWorkersInvoked == \A i \in 1..Len(invoked) : invoked[i] = "workers"

\* the stream of streamChatCompletion under every routing decision
InitStream ==
    /\ env \in Envs
    /\ tenantTier = "starter"
    /\ request = [provider |-> None, hasTools |-> FALSE, stream |-> TRUE]
    /\ IdleRequest

NextStream ==
    \/ StreamBody
    \/ WorkersResolve
    \/ AdapterFetchResolve
    \/ AdapterFetchReject
    \/ AdapterBodyLine
    \/ AdapterBodyEnd
    \/ AdapterBodyError
    \/ AdapterStartRejected
    \/ OrchEnqueue
    \/ OrchClose
    \/ OrchCatch
    \/ PipeRead
    \/ PipeTransform
    \/ PipeClose
    \/ PipeAbort
    \/ ClientRead

SpecStream == InitStream /\ [][NextStream]_vars

\* routeRequest applied to every RoutingOptions value
QuotaSamples == {0, 9999, 10000, 99999, 100000, 999999, 1000000}

MaxTokensSamples == {0, 1, 4096, 4097, 8192, 8193, 16384, 16385}

RoutingOptionsSet ==
    {o \in [tenantTier : Tiers \cup {None}, hasQuotas : BOOLEAN,
            monthlyMessages : QuotaSamples,
            requestedProvider : Providers \cup {None}, requiresTools : BOOLEAN,
            requiresStreaming : BOOLEAN,
            qualityPreference : {None, "cost", "balanced", "quality"},
            maxTokens : MaxTokensSamples] :
        ~o.hasQuotas => o.monthlyMessages = 0}

InitRoute ==
    /\ env \in Envs
    /\ tenantTier = "starter"
    /\ request = [provider |-> None, hasTools |-> FALSE, stream |-> FALSE]
    /\ IdlePipeline
    /\ toolCalls = <<>>
    /\ toolResults = NotReturned
    /\ allowedTools = DefaultAllowedTools
    /\ IdleStore
    /\ options \in RoutingOptionsSet

\* a caller applies routeRequest(options, env)
Route ==
    /\ pc = "start"
    /\ routing' = RouteRequest(options, env)
    /\ pc' = "routed"
    /\ UNCHANGED <<storeVars, env, options, tenantTier, request, invoked, response,
                   durableMessages,
                   callVars, toolVars, adapterVars, provVars, orchVars, pipeVars,
                   clientVars>>

NextRoute == Route

SpecRoute == InitRoute /\ [][NextRoute]_vars

(***************************************************************************)
(* Properties of the routing engine (checked under SpecRoute)              *)
(***************************************************************************)

Routed == routing # NoRouting

\* C1: the provider routeRequest returns is available and permitted for the
\* tenant's tier: isProviderAllowed(result.provider, tier, env) holds, for every
\* RoutingOptions value and every configuration of API keys.
C1_ProviderAvailableAndAllowed ==
    Routed =>
        /\ IsProviderAvailable(routing.provider, env)
        /\ IsProviderAllowed(routing.provider, EffectiveTier(options), env)

\* a premium provider was auto-selected
C1_Witness ==
    /\ Routed
    /\ options.requestedProvider = None
    /\ routing.provider = "openai"

Sign(n) == IF n < 0 THEN -1 ELSE IF n > 0 THEN 1 ELSE 0

\* the comparator orders the providers consistently, so the sorted order does not
\* depend on how sort calls it
ConsistentComparator(preference, tierConfig) ==
    /\ \A a, b \in Providers :
          a # b => Sign(Compare(PROVIDERS[a], PROVIDERS[b], preference, tierConfig))
                   = -Sign(Compare(PROVIDERS[b], PROVIDERS[a], preference, tierConfig))
    /\ \A a, b, c \in Providers :
          (/\ Cardinality({a, b, c}) = 3
           /\ Compare(PROVIDERS[a], PROVIDERS[b], preference, tierConfig) <= 0
           /\ Compare(PROVIDERS[b], PROVIDERS[c], preference, tierConfig) <= 0)
          => Compare(PROVIDERS[a], PROVIDERS[c], preference, tierConfig) <= 0

\* C2: routeRequest is total: for every RoutingOptions and env it returns a result
\* whose provider is workers, anthropic or openai and whose model is that
\* provider's default model; the result is a function of the inputs (the comparator
\* it sorts with is a consistent order, so no sort implementation can change it).
C2_TotalDefaultModel ==
    Routed =>
        /\ routing.provider \in Providers
        /\ routing.model = GetDefaultModel(routing.provider)
        /\ ConsistentComparator(Preference(options), TIER_DEFAULTS[EffectiveTier(options)])

\* the fallback decision of auto-selection: no candidate survived
C2_Witness ==
    /\ Routed
    /\ routing.reason = ReasonNoCandidates
    /\ options.maxTokens = 16385

\* C3: with requestedProvider set, routeRequest returns that provider if and only
\* if it is available and allowed for the tier; otherwise it returns workers with a
\* reason that tells 'requested provider unavailable' from 'tier restricted'.
C3_RequestedHonouredIffAllowed ==
    (Routed /\ options.requestedProvider # None) =>
        LET req == options.requestedProvider
            allowed == IsProviderAllowed(req, EffectiveTier(options), env)
        IN /\ (routing.provider = req) <=> allowed
           /\ allowed => routing.reason = ReasonRequested
           /\ ~allowed =>
                /\ routing.provider = "workers"
                /\ routing.reason = IF ~IsProviderAvailable(req, env)
                                    THEN ReasonUnavailable
                                    ELSE ReasonTier
           /\ ReasonUnavailable # ReasonTier

\* a requested premium provider is refused because of the tier
C3_Witness ==
    /\ Routed
    /\ options.requestedProvider = "anthropic"
    /\ routing.reason = ReasonTier

\* C4 as stated: for every request with requiresTools the returned provider
\* supports tools, or no provider qualified and workers is returned with the
\* no-candidates reason.
C4_ToolsAlwaysSupported ==
    (Routed /\ options.requiresTools) =>
        \/ PROVIDERS[routing.provider].supportsTools
        \/ routing.provider = "workers" /\ routing.reason = ReasonNoCandidates

\* C4 amended: for every request with requiresTools and no requestedProvider the
\* returned provider supports tools whenever a provider survives the filter, and
\* otherwise workers is returned with the no-candidates reason.
C4_ToolsSupportedWhenAutoSelected ==
    (Routed /\ options.requiresTools /\ options.requestedProvider = None) =>
        IF \E name \in Providers :
              LET p == PROVIDERS[name]
              IN /\ p.supportsTools
                 /\ IsProviderAllowed(name, EffectiveTier(options), env)
                 /\ ~(options.maxTokens # 0 /\ options.maxTokens > p.maxTokens)
                 /\ ~(options.requiresStreaming /\ ~p.supportsStreaming)
        THEN PROVIDERS[routing.provider].supportsTools
        ELSE routing.provider = "workers" /\ routing.reason = ReasonNoCandidates

\* tools are required and a provider with tool support is auto-selected
C4_Witness ==
    /\ Routed
    /\ options.requiresTools
    /\ options.requestedProvider = None
    /\ routing.provider = "anthropic"

\* C5: for a starter-tier tenant (tier 'starter', or no tier and quotas absent or
\* below 10,000 monthly messages) routeRequest returns workers whatever the
\* requested provider, capability flags, quality preference and maxTokens.
C5_StarterGetsWorkers ==
    (/\ Routed
     /\ \/ options.tenantTier = "starter"
        \/ /\ options.tenantTier = None
           /\ (~options.hasQuotas \/ options.monthlyMessages < 10000))
    => routing.provider = "workers"

\* a tenant with 9,999 monthly messages and a configured key asks for anthropic
C5_Witness ==
    /\ Routed
    /\ options.tenantTier = None
    /\ options.hasQuotas
    /\ options.monthlyMessages = 9999
    /\ options.requestedProvider = "anthropic"
    /\ env.ANTHROPIC_API_KEY
    /\ routing.provider = "workers"

(***************************************************************************)
(* Properties of the request handlers (Spec) and of the stream (SpecStream)*)
(***************************************************************************)

\* C6 as stated: when a chat-completion request names a provider that is available
\* and allowed for the tenant's tier, the adapter handleChatCompletion invokes is
\* that provider's adapter.
C6_RequestedAdapterInvoked ==
    (/\ invoked # <<>>
     /\ request.provider # None
     /\ IsProviderAllowed(request.provider, tenantTier, env))
    => invoked[1] = request.provider

DataEvents(events) == SelectSeq(events, LAMBDA e : e.kind = "data")

SSEAll(chunks) == [i \in 1..Len(chunks) |-> SSEEvent(chunks[i])]

IsPrefix(a, b) == Len(a) <= Len(b) /\ a = SubSeq(b, 1, Len(a))

\* C7: the data events delivered to the client are, at every moment, a prefix of
\* the provider's chunk sequence in the same order (nothing dropped in between,
\* duplicated or reordered), and the orchestrator never has more than one read
\* outstanding on the provider stream.
C7_ClientSeesPrefixInOrder ==
    /\ IsPrefix(DataEvents(received), SSEAll(produced))
    /\ pendingReads <= 1

\* the client holds two different chunks and the orchestrator waits for the next
C7_Witness ==
    /\ Len(DataEvents(received)) >= 2
    /\ received[1] # received[2]
    /\ pendingReads = 1

\* C8: when the provider stream ends normally the client's event stream ends with
\* exactly one [DONE] sentinel after every chunk event; no event follows the
\* sentinel and it is never emitted twice.
C8_OneSentinelAtEnd ==
    /\ \A i \in 1..Len(received) : received[i] = DoneEvent => i = Len(received)
    /\ (orchPc = "closed" /\ clientEnd # "open") =>
          /\ clientEnd = "closed"
          /\ received = SSEAll(produced) \o <<DoneEvent>>

\* the client saw chunks, the sentinel and the end of the body
C8_Witness ==
    /\ orchPc = "closed"
    /\ clientEnd = "closed"
    /\ Len(received) >= 3

\* C9 as stated: if the provider stream raises after k chunks were forwarded, the
\* client receives those k chunk events followed by one terminal error event, the
\* provider is not invoked again and no assistant message is persisted.
C9_ErrorEventAfterRaise ==
    (orchPc = "caught" /\ clientEnd # "open") =>
        /\ received = SSEAll(forwarded) \o <<ErrorEvent>>
        /\ Len(invoked) = 1
        /\ durableMessages = <<>>

\* C10 as stated: when the backend answers the streaming call with a non-success
\* status, the premium adapter's stream fails (it does not complete normally as an
\* empty chunk sequence), the client's stream ends with an error event and no
\* assistant message is persisted.
C10_HttpErrorFailsStream ==
    /\ (httpStatus = 500 /\ adapterPc = "finished") => prov.state = "errored"
    /\ (httpStatus = 500 /\ clientEnd # "open") =>
          /\ received # <<>>
          /\ received[Len(received)] = ErrorEvent
          /\ durableMessages = <<>>

(***************************************************************************)
(* Persistence of the streamed answer (checked under SpecStream)           *)
(***************************************************************************)

\* the concatenation of the content deltas of a chunk sequence
RECURSIVE ConcatContent(_)
ConcatContent(chunks) ==
    IF chunks = <<>> THEN <<>>
    ELSE Head(chunks).content \o ConcatContent(Tail(chunks))

\* ChatMessage of role assistant
AssistantMessage(content) == [role |-> "assistant", content |-> content]

\* C11 as stated: once streamChatCompletion has forwarded a chunk with a terminal
\* finishReason and closed its stream on the end of the provider stream, the
\* session's stored messages hold a new assistant message whose content is the
\* concatenation of all forwarded content deltas.
C11_AssistantMessagePersisted ==
    (/\ orchPc = "closed"
     /\ \E i \in 1..Len(forwarded) : forwarded[i].finishReason # None)
    => \E i \in 1..Len(durableMessages) :
          durableMessages[i] = AssistantMessage(ConcatContent(forwarded))

(***************************************************************************)
(* Cancellation by the client                                              *)
(***************************************************************************)

\* ReadableStreamCancel: a readable stream closes and its queue is reset
RSCancel(s) ==
    IF s.state = "readable" THEN [s EXCEPT !.state = "closed", !.queue = <<>>] ELSE s

\* the client cancels the response body: the transform's readable side closes, a
\* waiting read ends, the writable side is errored (a blocked write is dropped), and
\* the pipe is left to shut down
ClientCancel ==
    /\ pc = "streaming"
    /\ clientEnd = "open"
    /\ clientEnd' = "cancelled"
    /\ clientPull' = FALSE
    /\ sse' = RSCancel(sse)
    /\ pipe' = IF pipe.pc \in {"ready", "reading", "writing"}
               THEN [pc |-> "sawCancel", inflight |-> <<>>]
               ELSE [pipe EXCEPT !.pc = "done"]
    /\ UNCHANGED <<routeVars, reqVars, adapterVars, provVars, orchVars, received>>

\* pipeTo finds its destination errored and cancels stream; the underlying source of
\* stream has no cancel callback, so nothing is told to the start callback
PipeCancel ==
    /\ pipe.pc = "sawCancel"
    /\ out' = RSCancel(out)
    /\ pipe' = [pipe EXCEPT !.pc = "done"]
    /\ UNCHANGED <<routeVars, reqVars, adapterVars, provVars, orchPc, forwarded, sse,
                   clientVars>>

\* controller.enqueue(value) or controller.close() on the cancelled stream throws a
\* TypeError; catch: controller.error(error) has no effect on a closed stream
OrchThrows ==
    /\ orchPc = "looping"
    /\ readResult.kind \in {"chunk", "done"}
    /\ out.state # "readable"
    /\ orchPc' = "caught"
    /\ readResult' = NoRead
    /\ UNCHANGED <<routeVars, reqVars, adapterVars, prov, produced, pendingReads, out,
                   forwarded, pipeVars, clientVars>>

NextCancel ==
    \/ StreamBody
    \/ WorkersResolve
    \/ AdapterFetchResolve
    \/ AdapterFetchReject
    \/ AdapterBodyLine
    \/ AdapterBodyEnd
    \/ AdapterBodyError
    \/ AdapterStartRejected
    \/ OrchEnqueue
    \/ OrchClose
    \/ OrchCatch
    \/ OrchThrows
    \/ PipeRead
    \/ PipeTransform
    \/ PipeClose
    \/ PipeAbort
    \/ PipeCancel
    \/ ClientRead
    \/ ClientCancel

\* the stream of streamChatCompletion with a client that may cancel at any moment
SpecCancel == InitStream /\ [][NextCancel]_vars

\* C12 as stated: once the client has cancelled the response stream and the
\* orchestrator has observed it, the orchestrator has no read outstanding on the
\* provider stream, the provider stream is cancelled (no longer readable, nothing
\* left queued for a reader that will not come), and the durable session state is
\* what it was.
C12_CancelReleasesProvider ==
    (clientEnd = "cancelled" /\ orchPc = "caught") =>
        /\ pendingReads = 0
        /\ prov.state # "readable"
        /\ prov.queue = <<>>
        /\ durableMessages = <<>>

(***************************************************************************)
(* The adapters and completeChat under every backend behaviour             *)
(***************************************************************************)

\* complete(p, options, env) and stream(p, options, env) of one provider's adapter,
\* both calls meeting the same backend behaviour b
CallAdapter ==
    /\ pc = "start"
    /\ \E p \in Providers, b \in Backends :
          /\ invoked' = Append(invoked, p)
          /\ backend' = b
          /\ completion' = Complete(p, env, b)
          /\ produced' = Stream(p, env, b).chunks
          /\ adapterPc' = IF Stream(p, env, b).end = "closed" THEN "finished" ELSE "failed"
    /\ pc' = "called"
    /\ UNCHANGED <<storeVars, routeVars, tenantTier, request, response, durableMessages,
                   toolVars,
                   httpStatus, bodyLen, prov, pendingReads, readResult, orchVars,
                   pipeVars, clientVars>>

\* RoutingOptions as completeChat would build them with the tenant's tier
CompleteOptions ==
    [tenantTier : Tiers, hasQuotas : {FALSE}, monthlyMessages : {0},
     requestedProvider : Providers \cup {None}, requiresTools : BOOLEAN,
     requiresStreaming : {FALSE}, qualityPreference : {None}, maxTokens : {0}]

\* completeChat for any decision routeRequest can return and any backend behaviour
CompleteBody ==
    /\ pc = "start"
    /\ \E o \in CompleteOptions, b \in Backends : CompleteChat(o, b)

InitAdapter ==
    /\ env \in Envs
    /\ tenantTier = "starter"
    /\ request = [provider |-> None, hasTools |-> FALSE, stream |-> FALSE]
    /\ IdleRequest

NextAdapter ==
    \/ CallAdapter
    \/ CompleteBody

SpecAdapter == InitAdapter /\ [][NextAdapter]_vars

\* positions of the chunks with a non-null finishReason
TerminalIndexes(chunks) == {i \in 1..Len(chunks) : chunks[i].finishReason # None}

\* C13 as stated: for every provider, given the same backend answer, the
\* concatenation of delta.content over the chunks of stream() equals the content
\* of complete(), and the usage carried by the stream's terminal chunk equals the
\* usage of complete().
C13_StreamEqualsComplete ==
    (pc = "called" /\ completion.kind = "result" /\ adapterPc = "finished") =>
        /\ ConcatContent(produced) = completion.content
        /\ TerminalIndexes(produced) # {}
        /\ \A i \in TerminalIndexes(produced) : produced[i].usage = completion.usage

\* C14 as stated: every adapter stream that completes without error is a chunk
\* sequence with exactly one chunk of non-null finishReason, and that chunk is the
\* last one.
C14_OneTerminalChunkLast ==
    (pc = "called" /\ adapterPc = "finished") =>
        TerminalIndexes(produced) = {Len(produced)}

\* the edge-model backend call fails: env has no AI binding, or run() throws
EdgeCallFails(b) == ~b.AI \/ b.fault # "none"

\* C15 as stated: in production, when the edge-model backend call fails,
\* WorkersAIProvider.complete and stream fail with an adapter-level error and
\* neither returns nor streams simulated placeholder content.
C15_NoSimulationInProduction ==
    (/\ pc = "called"
     /\ invoked = <<"workers">>
     /\ backend.ENVIRONMENT = "production"
     /\ EdgeCallFails(backend))
    => /\ completion.kind = "error"
       /\ adapterPc = "failed"
       /\ produced = <<>>

\* C16: every failure of the adapter's complete() is turned by completeChat into
\* one 502 response of type llm_error: completeChat always returns a Response, it
\* invokes the adapter once, and the Response is a success body only if complete()
\* returned a result.
C16_FailureIsOne502 ==
    pc = "done" =>
        /\ Len(invoked) = 1
        /\ completion.kind \in {"error", "result"}
        /\ completion.kind = "error" =>
              response = [status |-> 502, provider |-> None, error |-> "llm_error"]
        /\ completion.kind = "result" =>
              response = [status |-> 200, provider |-> routing.provider, error |-> None]

\* a premium adapter's complete() failed on the backend's status
C16_Witness ==
    /\ pc = "done"
    /\ routing.provider = "openai"
    /\ completion.kind = "error"
    /\ response.status = 502

\* C17 as stated: when the adapter's result carries tool calls, the core executes
\* them with executeTools and calls the adapter again, so the request ends with a
\* final response after a bounded number of rounds.
C17_ToolCallsAreExecuted ==
    (pc = "done" /\ completion.kind = "result" /\ completion.toolCalls # <<>>) =>
        /\ toolResults.state = "fulfilled"
        /\ Len(invoked) >= 2

(***************************************************************************)
(* Tool execution: core/tools                                              *)
(***************************************************************************)

\* bound: most tool calls handed to executeTools at once
MaxCalls == 3

\* the keys of BUILT_IN_HANDLERS
BUILT_IN_HANDLERS == {"sessions_list", "sessions_send"}

\* a property every object literal inherits from Object.prototype
InheritedNames == {"toString"}

\* tool names a call can carry: the registered ones, an unregistered one, and the
\* name of an inherited property
ToolNames == BUILT_IN_HANDLERS \cup {"web_search"} \cup InheritedNames

\* BUILT_IN_TOOLS: parameters.required of the tool of that name
Required(name) == IF name = "sessions_send" THEN {"sessionId", "message"} ELSE {}

\* validateToolArguments(tool, args).valid: every required parameter is in args
ValidateToolArguments(name, args) == \A required \in Required(name) : required \in args

\* name in BUILT_IN_HANDLERS: the in operator finds own and inherited properties
InHandlers(name) == name \in BUILT_IN_HANDLERS \cup InheritedNames

\* name and argument keys of a call; arguments matter to sessions_send only
CallShapes ==
    {[name |-> name, args |-> args] :
        name \in ToolNames, args \in SUBSET {"sessionId", "message"}}

\* the ToolCall[] values handed to executeTools; the id of call i is i
ToolCallLists ==
    UNION {{[i \in 1..n |-> [id |-> i, name |-> f[i].name, args |-> f[i].args]] :
               f \in [1..n -> {c \in CallShapes : c.name = "sessions_send" \/ c.args = {}}]} :
           n \in 0..MaxCalls}

\* ToolResult; error None stands for no error property
ToolResult(tc, output, error) ==
    [toolCallId |-> tc.id, name |-> tc.name, output |-> output, error |-> error]

Pending == [state |-> "pending"]
Rejected == [state |-> "rejected"]
Fulfilled(value) == [state |-> "fulfilled", value |-> value]

\* executeTool up to its first await: the function found under the name is invoked,
\* or the LLMError 'Unknown tool' is thrown, caught, and the error result returned
ExecuteToolStart(tc) ==
    IF InHandlers(tc.name)
    THEN Pending
    ELSE Fulfilled(ToolResult(tc, "", "Unknown tool"))

\* what the invoked function returns: the handlers' JSON, or Object.prototype.toString
HandlerOutput(name) ==
    CASE name = "sessions_list" -> "sessions"
      [] name = "sessions_send" -> "success"
      [] OTHER -> "[object Object]"

\* a handler awaits the database, which may reject; toString returns at once
HandlerOutcomes(name) ==
    IF name \in BUILT_IN_HANDLERS THEN {"resolved", "rejected"} ELSE {"resolved"}

\* executeTool without its try/catch: a rejection of the handler leaves it
ExecuteToolSettledUncaught(tc, outcome) ==
    IF outcome = "resolved"
    THEN Fulfilled(ToolResult(tc, HandlerOutput(tc.name), None))
    ELSE Rejected

\* executeTool after its handler settled: the result with the output, or from the
\* catch block the result with output '' and the error's message
ExecuteToolSettled(tc, outcome) ==
    IF outcome = "resolved"
    THEN Fulfilled(ToolResult(tc, HandlerOutput(tc.name), None))
    ELSE Fulfilled(ToolResult(tc, "", "handler error"))

\* the row createMessage inserts for sessions_send
SentMessage(tc) == [role |-> "user", content |-> <<tc.id>>]

\* executeTools: toolCalls.map((tc) => executeTool(context, tc)) runs every
\* executeTool to its first await before Promise.all is called
ExecuteTools ==
    /\ pc = "start"
    /\ toolPromises' = [i \in 1..Len(toolCalls) |-> ExecuteToolStart(toolCalls[i])]
    /\ handlerCalls' = SelectSeq([i \in 1..Len(toolCalls) |-> i],
                                 LAMBDA i : InHandlers(toolCalls[i].name))
    /\ pc' = "executing"
    /\ UNCHANGED <<storeVars, routeVars, tenantTier, request, invoked, response,
                   durableMessages,
                   callVars, toolCalls, toolResults, adapterVars, provVars, orchVars,
                   pipeVars, clientVars>>

\* the function invoked for call i settles, in any order among the calls;
\* sessions_send has inserted its message when it resolves
HandlerSettles ==
    /\ pc = "executing"
    /\ \E i \in 1..Len(toolCalls) :
          /\ toolPromises[i] = Pending
          /\ \E outcome \in HandlerOutcomes(toolCalls[i].name) :
                /\ toolPromises' =
                      [toolPromises EXCEPT ![i] = ExecuteToolSettled(toolCalls[i], outcome)]
                /\ durableMessages' =
                      IF toolCalls[i].name = "sessions_send" /\ outcome = "resolved"
                      THEN Append(durableMessages, SentMessage(toolCalls[i]))
                      ELSE durableMessages
    /\ UNCHANGED <<storeVars, routeVars, tenantTier, request, pc, invoked, response,
                   callVars,
                   toolCalls, toolResults, handlerCalls, adapterVars, provVars, orchVars,
                   pipeVars, clientVars>>

\* Promise.all(promises): rejects once a promise has rejected, else resolves with
\* the values in the order of the promises when all are fulfilled
ToolsReturn ==
    /\ pc = "executing"
    /\ IF \E i \in 1..Len(toolPromises) : toolPromises[i] = Rejected
       THEN toolResults' = [state |-> "rejected", results |-> <<>>]
       ELSE /\ \A i \in 1..Len(toolPromises) : toolPromises[i].state = "fulfilled"
            /\ toolResults' =
                  [state |-> "fulfilled",
                   results |-> [i \in 1..Len(toolPromises) |-> toolPromises[i].value]]
    /\ pc' = "returned"
    /\ UNCHANGED <<storeVars, routeVars, tenantTier, request, invoked, response,
                   durableMessages,
                   callVars, toolCalls, toolPromises, handlerCalls, adapterVars,
                   provVars, orchVars, pipeVars, clientVars>>

\* the allow-lists a tenant's settings can hold over the built-in tools
AllowedToolsSets == SUBSET DefaultAllowedTools

InitTools ==
    /\ env = [ANTHROPIC_API_KEY |-> FALSE, OPENAI_API_KEY |-> FALSE]
    /\ tenantTier = "starter"
    /\ request = [provider |-> None, hasTools |-> TRUE, stream |-> FALSE]
    /\ options = HandlerOptions(request, FALSE)
    /\ IdlePipeline
    /\ IdleStore
    /\ allowedTools \in AllowedToolsSets
    /\ toolCalls \in ToolCallLists
    /\ toolResults = NotReturned

NextTools ==
    \/ ExecuteTools
    \/ HandlerSettles
    \/ ToolsReturn

\* executeTools applied to every list of tool calls
SpecTools == InitTools /\ [][NextTools]_vars

(***************************************************************************)
(* Properties of tool execution (checked under SpecTools)                  *)
(***************************************************************************)

\* the function found under the name of call i has been invoked
HandlerInvoked(i) == \E k \in 1..Len(handlerCalls) : handlerCalls[k] = i

\* C18: executeTools with N calls starts all N before it waits, resolves only after
\* all N have settled, and returns exactly N results where result i has the
\* toolCallId and name of call i and is what call i settled with; a handler that
\* rejects sets the error of its own result only, whatever the order in which the
\* handlers complete.
C18_AllSettledInOrder ==
    /\ pc = "executing" =>
          \A i \in 1..Len(toolCalls) :
             \/ HandlerInvoked(i)
             \/ toolPromises[i].state = "fulfilled"
    /\ pc = "returned" =>
          /\ toolResults.state = "fulfilled"
          /\ Len(toolResults.results) = Len(toolCalls)
          /\ \A i \in 1..Len(toolCalls) :
                /\ toolResults.results[i].toolCallId = toolCalls[i].id
                /\ toolResults.results[i].name = toolCalls[i].name
                /\ toolPromises[i] = Fulfilled(toolResults.results[i])

\* three calls, the second handler rejected, the third completed before the first
C18_Witness ==
    /\ pc = "returned"
    /\ Len(toolCalls) = 3
    /\ toolResults.results[1].error = None
    /\ toolResults.results[2].error = "handler error"
    /\ toolResults.results[3].error = None
    /\ durableMessages = <<SentMessage(toolCalls[3]), SentMessage(toolCalls[1])>>

\* C19 as stated: for every tool call whose name is not a registered built-in
\* handler, executeTool returns a ToolResult with error set and empty output and
\* invokes no handler.
C19_UnknownToolIsError ==
    \A i \in 1..Len(toolPromises) :
       toolCalls[i].name \notin BUILT_IN_HANDLERS =>
          /\ ~HandlerInvoked(i)
          /\ toolPromises[i].state = "fulfilled"
          /\ toolPromises[i].value.error # None
          /\ toolPromises[i].value.output = ""

\* C20 as stated: a tool call whose arguments lack a required parameter of the
\* tool's schema yields an error ToolResult, its handler is never invoked, and the
\* handler's side effect (the inserted message) does not occur.
C20_MissingRequiredIsError ==
    \A i \in 1..Len(toolPromises) :
       ~ValidateToolArguments(toolCalls[i].name, toolCalls[i].args) =>
          /\ ~HandlerInvoked(i)
          /\ toolPromises[i].state = "fulfilled"
          /\ toolPromises[i].value.error # None
          /\ \A k \in 1..Len(durableMessages) : durableMessages[k] # SentMessage(toolCalls[i])

\* C21 as stated: a tool handler is executed only if the tool's name is in the
\* tenant's allow-list; executing a tool call whose name is not in the allow-list
\* returns a permission-denied error result and invokes no handler.
C21_OnlyAllowedToolsExecute ==
    \A i \in 1..Len(toolPromises) :
       toolCalls[i].name \notin allowedTools =>
          /\ ~HandlerInvoked(i)
          /\ toolPromises[i].state = "fulfilled"
          /\ toolPromises[i].value.error # None

(***************************************************************************)
(* toolResultsToMessages (checked under SpecMessages)                      *)
(***************************************************************************)

\* the outcomes executeTool can return for one call: an output; an empty output; the
\* catch block's result for an error with a message, and for one whose message is ''
ResultSamples ==
    {[name |-> "sessions_list", output |-> "sessions", error |-> None],
     [name |-> "sessions_send", output |-> "", error |-> None],
     [name |-> "sessions_send", output |-> "", error |-> "handler error"],
     [name |-> "sessions_list", output |-> "", error |-> ""]}

\* the ToolResult[] values handed to toolResultsToMessages; result i answers call i
ResultLists ==
    UNION {{[i \in 1..n |-> [toolCallId |-> i, name |-> f[i].name,
                             output |-> f[i].output, error |-> f[i].error]] :
               f \in [1..n -> ResultSamples]} :
           n \in 0..MaxCalls}

\* result.error ? ... : ...: undefined and the empty string are both falsy
Truthy(error) == error # None /\ error # ""

\* toolResultsToMessages: results.map to tool-role messages; content is the template
\* `Error: ${result.error}` or the output
ToolResultsToMessages(results) ==
    [i \in 1..Len(results) |->
        [role |-> "tool",
         content |-> IF Truthy(results[i].error)
                     THEN <<"Error: ", results[i].error>>
                     ELSE <<results[i].output>>,
         toolCallId |-> results[i].toolCallId]]

\* a caller applies toolResultsToMessages to the results executeTools resolved with
ConvertResults ==
    /\ pc = "start"
    /\ toolResults.state = "fulfilled"
    /\ toolMessages' = ToolResultsToMessages(toolResults.results)
    /\ pc' = "converted"
    /\ UNCHANGED <<routeVars, tenantTier, request, invoked, response, durableMessages,
                   gateVars, callVars, toolVars, allowedTools, db, CACHE, inFlight, adapterVars,
                   provVars, orchVars, pipeVars, clientVars>>

InitMessages ==
    /\ env = [ANTHROPIC_API_KEY |-> FALSE, OPENAI_API_KEY |-> FALSE]
    /\ tenantTier = "starter"
    /\ request = [provider |-> None, hasTools |-> TRUE, stream |-> FALSE]
    /\ options = HandlerOptions(request, FALSE)
    /\ IdlePipeline
    /\ toolCalls = <<>>
    /\ allowedTools = DefaultAllowedTools
    /\ IdleStore
    /\ toolResults \in {[state |-> "fulfilled", results |-> rs] : rs \in ResultLists}

NextMessages == ConvertResults

\* toolResultsToMessages applied to every list of results
SpecMessages == InitMessages /\ [][NextMessages]_vars

\* C22 as stated: toolResultsToMessages returns a list of the same length and order
\* as its input in which message i has role 'tool', toolCallId equal to result i's
\* toolCallId, and content equal to "Error: " + message when result i failed and
\* equal to its output otherwise, for every result including a failed one whose
\* error message is the empty string.
C22_MessagesMirrorResults ==
    pc = "converted" =>
       /\ Len(toolMessages) = Len(toolResults.results)
       /\ \A i \in 1..Len(toolMessages) :
             /\ toolMessages[i].role = "tool"
             /\ toolMessages[i].toolCallId = toolResults.results[i].toolCallId
             /\ toolMessages[i].content =
                   IF toolResults.results[i].error # None
                   THEN <<"Error: ", toolResults.results[i].error>>
                   ELSE <<toolResults.results[i].output>>

(***************************************************************************)
(* The two-tier session store: the D1 tables behind db/messages and        *)
(* db/sessions, the KV namespace behind core/session-cache, and the calls  *)
(* that requests make on them. Every await of a call is one step, so the   *)
(* KV get, put and delete of different requests interleave.                *)
(***************************************************************************)

\* bound: most rows the messages table holds
MaxRows == 2

SessionIds == {"s1", "s2"}

\* context.tenantId and context.sessionId of the requests in flight
ContextTenant == "A"
ContextSession == "s1"

\* JSON.stringify and JSON.parse of a column value
Stringify(value) == [json |-> value]
ParseJson(column) == column.json

\* the sessions table: s1 belongs to the requests' tenant, s2 to another tenant
SessionRows ==
    {[s \in SessionIds |->
         [id |-> s, tenant_id |-> IF s = "s1" THEN "A" ELSE "B",
          status |-> IF s = "s1" THEN status ELSE "active",
          model |-> "llama", provider |-> "workers", created_at |-> "t0",
          updated_at |-> "t0", metadata |-> Stringify("defaults")]] :
     status \in {"active", "archived"}}

\* NULL in a JSON column
Null == [null |-> TRUE]

\* the row createMessage binds; NoToolCalls stands for a message without toolCalls,
\* None for one without toolCallId and for NULL in tool_call_id
NoToolCalls == <<>>
Row(sessionId, role, content, calls, toolCallId) ==
    [session_id |-> sessionId, role |-> role, content |-> content,
     tool_calls |-> IF calls = NoToolCalls THEN Null ELSE Stringify(calls),
     tool_call_id |-> toolCallId]

\* a session's history: a user turn, an assistant turn that calls a tool, and the
\* tool's answer
Conversation(s) ==
    <<Row(s, "user", "hi", NoToolCalls, None),
      Row(s, "assistant", "", <<"call_1">>, None),
      Row(s, "tool", "42", NoToolCalls, "call_1")>>

\* the messages tables the requests can find: a stretch of the history of the
\* request's session, in created_at order
MessageTables ==
    {SubSeq(Conversation(ContextSession), w[1], w[2]) :
        w \in {v \in (1..4) \X (0..3) : v[2] >= v[1] - 1 /\ v[2] - v[1] + 1 <= MaxRows}}

\* SELECT * FROM messages WHERE session_id = ? ORDER BY created_at ASC
RowsOf(s) == SelectSeq(db.messages, LAMBDA row : row.session_id = s)

\* mapToChatMessage: toolCalls and toolCallId are set when the column is not NULL
MapToChatMessage(row) ==
    [role |-> row.role, content |-> row.content,
     toolCalls |-> IF row.tool_calls = Null THEN NoToolCalls
                   ELSE ParseJson(row.tool_calls),
     toolCallId |-> row.tool_call_id]

\* db getSessionMessages(db, s); its LIMIT of 100 is above MaxRows
DbSessionMessages(s) == [i \in 1..Len(RowsOf(s)) |-> MapToChatMessage(RowsOf(s)[i])]

\* the row conversion inside warmSessionCache: role, content and toolCalls only
WarmChatMessage(row) ==
    [role |-> row.role, content |-> row.content,
     toolCalls |-> IF row.tool_calls = Null THEN NoToolCalls
                   ELSE ParseJson(row.tool_calls),
     toolCallId |-> None]

\* no value under the key: KV get resolves with null
NoEntry == [id |-> None]

\* CachedSession built from a session's row and a message list, as createCachedSession
\* and warmSessionCache build it
CachedSession(session, messages) ==
    [id |-> session.id, tenantId |-> session.tenant_id, model |-> session.model,
     provider |-> session.provider, messages |-> messages,
     createdAt |-> session.created_at, updatedAt |-> session.updated_at,
     metadata |-> ParseJson(session.metadata)]

\* an update that appends to the cached list
UpdatedSessionAppended(cached, messages) ==
    [cached EXCEPT !.messages = @ \o messages, !.updatedAt = "now"]

\* updateSessionMessages: cached.messages = messages; cached.updatedAt = Date.now()
UpdatedSession(cached, messages) ==
    [cached EXCEPT !.messages = messages, !.updatedAt = "now"]

\* message lists a caller hands to updateSessionMessages and createCachedSession
MessageLists ==
    {<<>>,
     <<MapToChatMessage(Row(ContextSession, "user", "hi", NoToolCalls, None))>>,
     <<MapToChatMessage(Row(ContextSession, "user", "hi", NoToolCalls, None)),
       MapToChatMessage(Row(ContextSession, "user", "more", NoToolCalls, None))>>}

\* the row createMessage inserts for sessions_send with args.sessionId = s
SentRow(s) == Row(s, "user", "sent", NoToolCalls, None)

\* listSessions(db, tenantId, {status: 'active'}): ids of the tenant's active sessions
ListSessions(tenantId) ==
    {s \in SessionIds :
        db.sessions[s].tenant_id = tenantId /\ db.sessions[s].status = "active"}

\* a KV or D1 operation resolves or rejects
Outcomes == {"ok", "fail"}

CacheOps == {"getSessionFromCache", "saveSessionToCache", "updateSessionMessages",
             "invalidateSessionCache", "getSessionMessages", "warmSessionCache"}
DbOps == {"sessions_send", "sessions_list", "createMessages", "deleteSessionMessages"}

\* what a call has returned: kv tells how its KV operation went
NoReturn == [kind |-> None, kv |-> None, value |-> <<>>]
Returned(kind, kv, value) == [kind |-> kind, kv |-> kv, value |-> value]

\* the call a request made just before the current one, and whether one of its
\* awaits rejected
NoPrev == [op |-> None, failed |-> FALSE]

\* a request that has made no call yet. more tells whether it makes one call or a
\* sequence of calls; failed, that an await of the current call rejected; prev is
\* the call made just before the current one, if that was a call of the same
\* function and no entry has expired since it returned; expired, that an entry
\* expired since the current call returned; reset tells how the KV delete of
\* invalidateSessionCache went, if that function returned and neither
\* saveSessionToCache nor warmSessionCache was called since
IdleCall(more) ==
    [op |-> None, pc |-> "idle", sessionId |-> ContextSession, messages |-> <<>>,
     cached |-> NoEntry, failed |-> FALSE, ret |-> NoReturn, more |-> more,
     expired |-> FALSE, prev |-> NoPrev, reset |-> None]

\* the await a call starts with
FirstStep(op) ==
    CASE op = "saveSessionToCache" -> "put"
      [] op = "invalidateSessionCache" -> "delete"
      [] op \in DbOps -> "db"
      [] OTHER -> "get"

\* the message lists a call of op can be handed
Arguments(op) ==
    CASE op \in {"saveSessionToCache", "updateSessionMessages"} -> MessageLists
      [] op = "createMessages" -> MessageLists \ {<<>>}
      [] op = "getSessionMessages" -> {<<>>, DbSessionMessages(ContextSession)}
      [] OTHER -> {<<>>}

\* rows the call inserts into the messages table
Inserts(c) ==
    CASE c.op = "sessions_send" -> <<SentRow(c.sessionId)>>
      [] c.op = "createMessages" ->
            [i \in 1..Len(c.messages) |->
                Row(c.sessionId, c.messages[i].role, c.messages[i].content,
                    c.messages[i].toolCalls, c.messages[i].toolCallId)]
      [] OTHER -> <<>>

\* the call returns
Finish(c, failed, ret) ==
    [c EXCEPT !.pc = "returned", !.ret = ret, !.failed = failed,
              !.reset = IF c.op = "invalidateSessionCache" THEN ret.kv ELSE c.reset]

\* warmSessionCache without its early return
ExistingNever(cached) == FALSE

\* warmSessionCache: if (existing) return
Existing(cached) == cached # NoEntry

\* a delete that resolves and removes nothing
RemovedNothing(kv, key) == kv

\* env.CACHE.delete(key) resolved
Removed(kv, key) == [kv EXCEPT ![key] = NoEntry]

\* request p calls a session-cache function, a db/messages function or a built-in
\* handler; the sessions_send handler takes its target from the tool arguments
BeginCall(p) ==
    LET c == inFlight[p] IN
    /\ c.pc = "idle" \/ (c.pc = "returned" /\ c.more)
    /\ \E op \in CacheOps \cup DbOps, s \in SessionIds :
          /\ op # "sessions_send" => s = ContextSession
          /\ \E messages \in Arguments(op) :
                LET b == [c EXCEPT !.op = op, !.sessionId = s, !.messages = messages] IN
                /\ Len(db.messages) + Len(Inserts(b)) <= MaxRows
                /\ inFlight' =
                      [inFlight EXCEPT ![p] =
                          [b EXCEPT
                              !.pc = FirstStep(op),
                              !.cached = IF op = "saveSessionToCache"
                                         THEN CachedSession(db.sessions[s], messages)
                                         ELSE NoEntry,
                              !.failed = FALSE,
                              !.ret = NoReturn,
                              !.expired = FALSE,
                              !.prev = IF c.pc = "returned" /\ c.op = op /\ ~c.expired
                                       THEN [op |-> c.op, failed |-> c.failed]
                                       ELSE NoPrev,
                              !.reset = IF op \in {"saveSessionToCache",
                                                   "warmSessionCache"}
                                        THEN None ELSE c.reset]]
    /\ UNCHANGED <<routeVars, tenantTier, request, pc, invoked, response,
                   durableMessages, gateVars, callVars, toolVars, allowedTools, toolMessages, db,
                   CACHE, adapterVars, provVars, orchVars, pipeVars, clientVars>>

\* getSessionFromCache: env.CACHE.get resolves with the stored value, or rejects and
\* the catch block reports null; then what each caller does with the answer
GetStep(p) ==
    LET c == inFlight[p] IN
    /\ c.pc = "get"
    /\ \E outcome \in Outcomes :
          LET cached == IF outcome = "ok" THEN CACHE[c.sessionId] ELSE NoEntry
              failed == outcome = "fail"
              kv == IF cached = NoEntry THEN "miss" ELSE "hit"
          IN inFlight' =
                [inFlight EXCEPT ![p] =
                    CASE c.op = "getSessionFromCache" ->
                            Finish(c, failed, Returned("session", kv, cached))
                      [] c.op = "getSessionMessages" ->
                            Finish(c, failed,
                                   Returned("messages", kv,
                                            IF cached = NoEntry THEN c.messages
                                            ELSE cached.messages))
                      [] c.op = "updateSessionMessages" ->
                            IF cached = NoEntry
                            THEN Finish(c, failed, Returned("void", kv, <<>>))
                            ELSE [c EXCEPT !.pc = "put",
                                           !.cached = UpdatedSession(cached, c.messages)]
                      [] c.op = "warmSessionCache" ->
                            IF Existing(cached)
                            THEN Finish(c, failed, Returned("void", kv, <<>>))
                            ELSE [c EXCEPT !.pc = "load", !.failed = failed]]
    /\ UNCHANGED <<routeVars, tenantTier, request, pc, invoked, response,
                   durableMessages, gateVars, callVars, toolVars, allowedTools, toolMessages, db,
                   CACHE, adapterVars, provVars, orchVars, pipeVars, clientVars>>

\* warmSessionCache after a miss: the session query and the messages query; a
\* rejection is caught, a session that is not active ends the call
LoadStep(p) ==
    LET c == inFlight[p]
        session == db.sessions[c.sessionId]
        rows == RowsOf(c.sessionId)
    IN
    /\ c.pc = "load"
    /\ \E outcome \in Outcomes :
          inFlight' =
             [inFlight EXCEPT ![p] =
                 IF outcome = "fail"
                 THEN Finish(c, TRUE, Returned("void", "miss", <<>>))
                 ELSE IF session.status # "active"
                 THEN Finish(c, c.failed, Returned("void", "miss", <<>>))
                 ELSE [c EXCEPT !.pc = "put",
                                !.cached =
                                   CachedSession(session,
                                      [i \in 1..Len(rows) |-> WarmChatMessage(rows[i])])]]
    /\ UNCHANGED <<routeVars, tenantTier, request, pc, invoked, response,
                   durableMessages, gateVars, callVars, toolVars, allowedTools, toolMessages, db,
                   CACHE, adapterVars, provVars, orchVars, pipeVars, clientVars>>

\* saveSessionToCache: env.CACHE.put stores the session under its key, or rejects
\* and the catch block logs
PutStep(p) ==
    LET c == inFlight[p] IN
    /\ c.pc = "put"
    /\ \E outcome \in Outcomes :
          /\ CACHE' = IF outcome = "ok"
                      THEN [CACHE EXCEPT ![c.cached.id] = c.cached]
                      ELSE CACHE
          /\ inFlight' =
                [inFlight EXCEPT ![p] =
                    Finish(c, c.failed \/ outcome = "fail",
                           Returned("void", IF outcome = "ok" THEN "stored" ELSE "failed",
                                    <<>>))]
    /\ UNCHANGED <<routeVars, tenantTier, request, pc, invoked, response,
                   durableMessages, gateVars, callVars, toolVars, allowedTools, toolMessages, db,
                   adapterVars, provVars, orchVars, pipeVars, clientVars>>

\* invalidateSessionCache without its try/catch: a rejection of env.CACHE.delete
\* leaves the call
DeleteStepUncaught(p) ==
    LET c == inFlight[p] IN
    /\ c.pc = "delete"
    /\ \E outcome \in Outcomes :
          /\ CACHE' = IF outcome = "ok" THEN Removed(CACHE, c.sessionId) ELSE CACHE
          /\ inFlight' =
                [inFlight EXCEPT ![p] =
                    IF outcome = "ok"
                    THEN Finish(c, FALSE, Returned("void", "deleted", <<>>))
                    ELSE Finish(c, TRUE, Returned("thrown", "failed", <<>>))]
    /\ UNCHANGED <<routeVars, tenantTier, request, pc, invoked, response,
                   durableMessages, gateVars, callVars, toolVars, allowedTools,
                   toolMessages, db, adapterVars, provVars, orchVars, pipeVars,
                   clientVars>>

\* invalidateSessionCache: env.CACHE.delete removes the key, or rejects and the
\* catch block logs
DeleteStep(p) ==
    LET c == inFlight[p] IN
    /\ c.pc = "delete"
    /\ \E outcome \in Outcomes :
          /\ CACHE' = IF outcome = "ok" THEN Removed(CACHE, c.sessionId) ELSE CACHE
          /\ inFlight' =
                [inFlight EXCEPT ![p] =
                    Finish(c, outcome = "fail",
                           Returned("void", IF outcome = "ok" THEN "deleted" ELSE "failed",
                                    <<>>))]
    /\ UNCHANGED <<routeVars, tenantTier, request, pc, invoked, response,
                   durableMessages, gateVars, callVars, toolVars, allowedTools, toolMessages, db,
                   adapterVars, provVars, orchVars, pipeVars, clientVars>>

\* the statement of createMessage (for sessions_send), createMessages or
\* deleteSessionMessages runs, or listSessions answers; a rejection leaves the call
DbStep(p) ==
    LET c == inFlight[p] IN
    /\ c.pc = "db"
    /\ \E outcome \in Outcomes :
          /\ db' =
                IF outcome = "fail" THEN db
                ELSE IF c.op = "deleteSessionMessages"
                THEN [db EXCEPT !.messages =
                         SelectSeq(@, LAMBDA row : row.session_id # c.sessionId)]
                ELSE [db EXCEPT !.messages = @ \o Inserts(c)]
          /\ inFlight' =
                [inFlight EXCEPT ![p] =
                    IF outcome = "fail"
                    THEN Finish(c, TRUE, Returned("thrown", None, <<>>))
                    ELSE IF c.op = "sessions_list"
                    THEN Finish(c, FALSE, Returned("sessions", None,
                                                   ListSessions(ContextTenant)))
                    ELSE Finish(c, FALSE, Returned("void", None, <<>>))]
    /\ UNCHANGED <<routeVars, tenantTier, request, pc, invoked, response,
                   durableMessages, gateVars, callVars, toolVars, allowedTools, toolMessages,
                   CACHE, adapterVars, provVars, orchVars, pipeVars, clientVars>>

\* the expirationTtl of an entry runs out
Expire ==
    /\ \E s \in SessionIds :
          /\ CACHE[s] # NoEntry
          /\ CACHE' = [CACHE EXCEPT ![s] = NoEntry]
    /\ inFlight' = [p \in DOMAIN inFlight |->
                       IF inFlight[p].pc = "returned"
                       THEN [inFlight[p] EXCEPT !.expired = TRUE]
                       ELSE [inFlight[p] EXCEPT !.prev = NoPrev]]
    /\ UNCHANGED <<routeVars, tenantTier, request, pc, invoked, response,
                   durableMessages, gateVars, callVars, toolVars, allowedTools, toolMessages, db,
                   adapterVars, provVars, orchVars, pipeVars, clientVars>>

\* the stores as requests can find them: any history of the request's session, its
\* entry absent or saved earlier
InitStore ==
    /\ env = [ANTHROPIC_API_KEY |-> FALSE, OPENAI_API_KEY |-> FALSE]
    /\ tenantTier = "starter"
    /\ request = [provider |-> None, hasTools |-> TRUE, stream |-> FALSE]
    /\ options = HandlerOptions(request, FALSE)
    /\ IdlePipeline
    /\ toolCalls = <<>>
    /\ toolResults = NotReturned
    /\ allowedTools = DefaultAllowedTools
    /\ toolMessages = <<>>
    /\ IdleGate
    /\ db \in [sessions : SessionRows, messages : MessageTables]
    /\ CACHE \in
          {[s \in SessionIds |-> IF s = ContextSession THEN entry ELSE NoEntry] :
              entry \in {NoEntry} \cup
                 {CachedSession(db.sessions[ContextSession], m) : m \in MessageLists}}

\* one request making its calls one after another
InitCache == InitStore /\ inFlight = [p \in {1} |-> IdleCall(TRUE)]

\* two requests handled concurrently, one call each
InitRace == InitStore /\ inFlight = [p \in {1, 2} |-> IdleCall(FALSE)]

NextCache ==
    \/ \E p \in DOMAIN inFlight :
          \/ BeginCall(p)
          \/ GetStep(p)
          \/ LoadStep(p)
          \/ PutStep(p)
          \/ DeleteStep(p)
          \/ DbStep(p)
    \/ Expire

SpecCache == InitCache /\ [][NextCache]_vars

SpecRace == InitRace /\ [][NextCache]_vars

(***************************************************************************)
(* Properties of the session store (checked under SpecCache, the race of   *)
(* two requests under SpecRace)                                            *)
(***************************************************************************)

\* C23 as stated: every session or message read or written while handling a
\* request for tenant A belongs to tenant A: sessions_send in tenant A's ToolContext
\* never inserts a message into a session owned by another tenant, whatever its
\* sessionId argument, and sessions_list returns only tenant A's sessions.
C23_TenantIsolation ==
    /\ \A i \in 1..Len(db.messages) :
          db.sessions[db.messages[i].session_id].tenant_id = ContextTenant
    /\ \A p \in DOMAIN inFlight :
          inFlight[p].ret.kind = "sessions" =>
             \A s \in inFlight[p].ret.value : db.sessions[s].tenant_id = ContextTenant

\* request p takes a step of the call of op it is making
CallStep(p, op) ==
    /\ inFlight[p].op = op
    /\ inFlight[p].pc \notin {"idle", "returned"}
    /\ inFlight'[p].pc # inFlight[p].pc

\* what warmSessionCache stores for session s from the tables as they are
Warmed(s) ==
    CachedSession(db.sessions[s], [i \in 1..Len(RowsOf(s)) |-> WarmChatMessage(RowsOf(s)[i])])

C25_MissRepopulates ==
    \A p \in DOMAIN inFlight :
       (/\ inFlight[p].op = "getSessionMessages"
        /\ inFlight[p].pc = "returned"
        /\ inFlight[p].ret.kv = "miss") =>
          /\ inFlight[p].ret.value = DbSessionMessages(inFlight[p].sessionId)
          /\ CACHE[inFlight[p].sessionId] # NoEntry

\* C26 as stated: every session mutation made through the session cache
\* (saveSessionToCache, updateSessionMessages) is applied to the durable store before
\* the operation returns, so when the call has returned the durable copy of the
\* session holds the messages that were cached.
C26_WriteThrough ==
    \A p \in DOMAIN inFlight :
       (/\ inFlight[p].op \in {"saveSessionToCache", "updateSessionMessages"}
        /\ inFlight[p].pc = "returned"
        /\ inFlight[p].ret.kv = "stored") =>
          DbSessionMessages(inFlight[p].sessionId) = inFlight[p].cached.messages

Written ==
    {inFlight[p].messages : p \in {q \in DOMAIN inFlight : inFlight[q].ret.kv = "stored"}}

\* C28: when two requests race on updateSessionMessages for the same session, after
\* both complete the cached message list equals exactly one of the two lists
\* written (last write wins, never a mixture of the two), and the entry's id,
\* tenantId, model, provider, createdAt and metadata are unchanged.
C28_LastWriteWins ==
    (/\ \A p \in DOMAIN inFlight :
           /\ inFlight[p].op = "updateSessionMessages"
           /\ inFlight[p].pc = "returned"
     /\ Written # {}
     /\ CACHE[ContextSession] # NoEntry) =>
       /\ CACHE[ContextSession].messages \in Written
       /\ [CACHE[ContextSession] EXCEPT !.messages = <<>>, !.updatedAt = "t0"] =
             CachedSession(db.sessions[ContextSession], <<>>)

\* both updates stored different lists and the first request's list is the one cached
C28_Witness ==
    /\ DOMAIN inFlight = {1, 2}
    /\ \A p \in DOMAIN inFlight :
          /\ inFlight[p].op = "updateSessionMessages"
          /\ inFlight[p].pc = "returned"
          /\ inFlight[p].ret.kv = "stored"
    /\ inFlight[1].messages # inFlight[2].messages
    /\ CACHE[ContextSession].messages = inFlight[1].messages

\* C29 as stated: whenever the durable message history of a session changes
\* (createMessage, createMessages, deleteSessionMessages, including an insert made
\* by the sessions_send tool), the session's KV cache entry is invalidated or
\* updated, so that once the change has returned a cache hit cannot give a message
\* list that differs from the durable store's.
C29_CacheFollowsDurable ==
    \A p \in DOMAIN inFlight :
       (/\ inFlight[p].op \in {"sessions_send", "createMessages", "deleteSessionMessages"}
        /\ inFlight[p].pc = "returned"
        /\ inFlight[p].ret.kind = "void") =>
          \/ CACHE[inFlight[p].sessionId] = NoEntry
          \/ CACHE[inFlight[p].sessionId].messages =
                DbSessionMessages(inFlight[p].sessionId)

\* every tool-role message of the list carries a toolCallId
ToolMessagesCarryId(messages) ==
    \A i \in 1..Len(messages) : messages[i].role = "tool" => messages[i].toolCallId # None

\* C30 as stated: every tool-role message in a message list the core loads (from
\* the durable store, or placed in the cache by warmSessionCache) carries a
\* toolCallId, and loading a session's messages via warmSessionCache yields the
\* same ChatMessage values as loading them via the durable-store query.
C30_ToolMessagesKeepCallId ==
    /\ ToolMessagesCarryId(DbSessionMessages(ContextSession))
    /\ \A p \in DOMAIN inFlight :
          (/\ inFlight[p].op = "warmSessionCache"
           /\ inFlight[p].pc = "returned"
           /\ inFlight[p].ret.kv = "stored") =>
             /\ ToolMessagesCarryId(inFlight[p].cached.messages)
             /\ inFlight[p].cached.messages = DbSessionMessages(inFlight[p].sessionId)

(***************************************************************************)
(* Ranking of the surviving candidates (checked under SpecRoute)           *)
(***************************************************************************)

\* routeRequest reached selectBestProvider and the filter left a candidate
AutoSelected ==
    /\ Routed
    /\ options.requestedProvider = None
    /\ Len(Candidates(options, TIER_DEFAULTS[EffectiveTier(options)], env)) > 0

\* C34: in auto-selection with qualityPreference 'balanced', given or left out,
\* the provider selected is the tier's default provider whenever that provider
\* survives the filter, whatever other candidates survive with it.
C34_BalancedPrefersTierDefault ==
    LET tierConfig == TIER_DEFAULTS[EffectiveTier(options)] IN
    (/\ AutoSelected
     /\ options.qualityPreference \in {None, "balanced"}
     /\ Survives(PROVIDERS[tierConfig.defaultProvider], options, tierConfig, env))
    => routing.provider = tierConfig.defaultProvider

\* all three providers survive for a tenant whose tier default is anthropic, no
\* preference is given, and anthropic is selected
C34_Witness ==
    /\ AutoSelected
    /\ options.qualityPreference = None
    /\ Len(Candidates(options, TIER_DEFAULTS[EffectiveTier(options)], env)) = 3
    /\ TIER_DEFAULTS[EffectiveTier(options)].defaultProvider = "anthropic"
    /\ routing.provider = "anthropic"

\* where PROVIDERS declares provider p
Position(p) == CHOOSE i \in 1..Len(ProviderOrder) : ProviderOrder[i] = p

\* C35: in auto-selection with qualityPreference 'cost' no surviving candidate has a
\* lower costPer1kTokens than the selected provider, with 'quality' none has a
\* higher quality tier, and every candidate that ranks equal to the selected
\* provider is declared after it in PROVIDERS.
C35_CostAndQualityRanking ==
    LET candidates == Candidates(options, TIER_DEFAULTS[EffectiveTier(options)], env)
        selected == PROVIDERS[routing.provider]
    IN AutoSelected =>
          \A i \in 1..Len(candidates) :
             LET c == candidates[i] IN
             /\ options.qualityPreference = "cost" =>
                   \/ selected.costPer1kTokens < c.costPer1kTokens
                   \/ /\ selected.costPer1kTokens = c.costPer1kTokens
                      /\ Position(selected.provider) <= Position(c.provider)
             /\ options.qualityPreference = "quality" =>
                   \/ QualityOrder(selected.quality) > QualityOrder(c.quality)
                   \/ /\ QualityOrder(selected.quality) = QualityOrder(c.quality)
                      /\ Position(selected.provider) <= Position(c.provider)

\* anthropic and openai both survive and rank equal under 'quality': anthropic,
\* declared first, is selected
C35_Witness ==
    /\ AutoSelected
    /\ options.qualityPreference = "quality"
    /\ \E i, j \in 1..Len(Candidates(options, TIER_DEFAULTS[EffectiveTier(options)], env)) :
          /\ Candidates(options, TIER_DEFAULTS[EffectiveTier(options)], env)[i].provider
                = "anthropic"
          /\ Candidates(options, TIER_DEFAULTS[EffectiveTier(options)], env)[j].provider
                = "openai"
    /\ routing.provider = "anthropic"

\* the session-cache functions whose KV calls sit in a try/catch of their own
GuardedOps == {"getSessionFromCache", "saveSessionToCache", "invalidateSessionCache",
               "warmSessionCache"}

\* C36: no step of getSessionFromCache, saveSessionToCache, invalidateSessionCache
\* or warmSessionCache changes the durable store, and a call of one of them in
\* which a KV operation rejected returns to its caller without throwing: the read
\* returns null (a miss), the write, the delete and the warm-up return normally.
C36_KvFailureNeverPropagates ==
    [][\A p \in DOMAIN inFlight :
          (\E op \in GuardedOps : CallStep(p, op)) =>
             /\ db' = db
             /\ (inFlight'[p].pc = "returned" /\ inFlight'[p].failed) =>
                   /\ inFlight'[p].ret.kind # "thrown"
                   /\ inFlight'[p].op = "getSessionFromCache" =>
                         /\ inFlight'[p].ret.kv = "miss"
                         /\ inFlight'[p].ret.value = NoEntry
                   /\ inFlight'[p].op # "getSessionFromCache" =>
                         inFlight'[p].ret.kind = "void"]_vars

\* env.CACHE.delete rejected while an entry was stored, and invalidateSessionCache
\* returned to its caller
C36_Witness ==
    \E p \in DOMAIN inFlight :
       /\ inFlight[p].op = "invalidateSessionCache"
       /\ inFlight[p].pc = "returned"
       /\ inFlight[p].failed
       /\ inFlight[p].ret.kv = "failed"
       /\ CACHE[inFlight[p].sessionId] # NoEntry

\* C37 as stated: once invalidateSessionCache(s) and a concurrent
\* updateSessionMessages(s, m) have both completed, with no KV operation of either
\* rejected, the cache holds no entry for s, however their get, put and delete
\* steps interleaved.
C37_ResetSurvivesUpdate ==
    \A p, q \in DOMAIN inFlight :
       (/\ inFlight[p].op = "invalidateSessionCache"
        /\ inFlight[q].op = "updateSessionMessages"
        /\ inFlight[p].sessionId = inFlight[q].sessionId
        /\ inFlight[p].pc = "returned" /\ ~inFlight[p].failed
        /\ inFlight[q].pc = "returned" /\ ~inFlight[q].failed)
       => CACHE[inFlight[p].sessionId] = NoEntry

(***************************************************************************)
(* API gateway: the top-level fetch handler (index), ApiGatewayWorker,     *)
(* WebChatWorker and rateLimitCheck (core/rate-limit)                      *)
(***************************************************************************)

\* rateLimitCheck: const limit = 100 (requests per window)
limit == 100

\* rateLimitCheck: const window = 60 (seconds)
window == 60

\* bound: the number of instants the clock takes
MaxTicks == 2

\* the clock advances in steps of half a window, in milliseconds
Tick == (window * 1000) \div 2

\* the values Date.now() takes: the first request arrives half a window in
Instants == {k * Tick : k \in 1..MaxTicks}

\* Math.floor(Date.now() / (window * 1000))
WindowOf(t) == t \div (window * 1000)

\* `ratelimit:${tenantId}:${Math.floor(Date.now() / (window * 1000))}`
RateKey(tenantId, t) == <<tenantId, WindowOf(t)>>

RateKeys == {RateKey(ContextTenant, t) : t \in {0} \cup Instants}

\* KV get resolves with null: no value under the key, or its expirationTtl ran out
NoCount == [present |-> FALSE, digits |-> 0, expiresAt |-> 0]

\* put(key, String(count), {expirationTtl: window}) at instant t; the decimal
\* digits of a count are kept as the number they spell
StoredCount(count, t) ==
    [present |-> TRUE, digits |-> count, expiresAt |-> t + window * 1000]

\* current ? parseInt(current, 10) : 0
ParseCount(current) == IF current.present THEN current.digits ELSE 0

\* Math.floor((Math.floor(Date.now() / (window * 1000)) + 1) * window * 1000)
ResetsAt(t) == (WindowOf(t) + 1) * window * 1000

\* what rateLimitCheck returned: ok is "true", "false" (with the 429 response, its
\* resets_at and the instant it was built) or "thrown"
NoCheck == [ok |-> None, status |-> 0, resets_at |-> 0, at |-> 0]
Admitted == [ok |-> "true", status |-> 0, resets_at |-> 0, at |-> 0]
Limited(t) == [ok |-> "false", status |-> 429, resets_at |-> ResetsAt(t), at |-> t]
CheckThrown == [ok |-> "thrown", status |-> 0, resets_at |-> 0, at |-> 0]

\* the promise the top-level fetch returned
FetchPending == [state |-> "pending", status |-> 0]
FetchFulfilled(status) == [state |-> "fulfilled", status |-> status]
FetchRejected == [state |-> "rejected", status |-> 0]

\* handleError: the status of the JSON error response, error.status for an
\* ApiError and 500 for anything else
HandleError(error) == IF error.apiError THEN error.status ELSE 500

\* a rejected promise of env.CACHE: not an ApiError
KvError == [apiError |-> FALSE, status |-> 0]
NoError == [apiError |-> FALSE, status |-> -1]

Paths == {"/api/v1/sessions", "/api/v1/unknown", "/webchat/widget.js",
          "/webchat/connect", "/health", "/unknown"}

StartsWith(path, prefix) ==
    CASE prefix = "/api/" -> path \in {"/api/v1/sessions", "/api/v1/unknown"}
      [] prefix = "/webchat/" -> path \in {"/webchat/widget.js", "/webchat/connect"}

\* ApiGatewayWorker.fetch after the rate limit check, for a GET request
ApiRoute(path) == IF path = "/api/v1/sessions" THEN 501 ELSE 404

\* WebChatWorker.fetch
WebChatRoute(path) ==
    CASE path = "/webchat/widget.js" -> 200
      [] path = "/webchat/connect" -> 501
      [] OTHER -> 404

\* a request the gateway has not seen yet; more tells whether the client sends one
\* request or one request after another
IdleFetch(more) ==
    [pc |-> "idle", path |-> None, key |-> RateKey(ContextTenant, 0), count |-> 0,
     check |-> NoCheck, raised |-> NoError, fetched |-> FetchPending, more |-> more]

\* the top-level fetch routes a GET request by its path: ApiGatewayWorker.fetch
\* authenticates and, for a valid key of the tenant, calls rateLimitCheck, which
\* computes its key and awaits env.CACHE.get
FetchBegin(p) ==
    LET r == gateway[p] IN
    /\ r.pc = "idle" \/ (r.pc = "settled" /\ r.more)
    /\ \E path \in Paths, authenticated \in BOOLEAN :
          /\ ~StartsWith(path, "/api/") => authenticated
          /\ gateway' =
                [gateway EXCEPT ![p] =
                    LET b == [IdleFetch(r.more) EXCEPT !.path = path] IN
                    IF StartsWith(path, "/api/")
                    THEN IF authenticated
                         THEN [b EXCEPT !.pc = "get", !.key = RateKey(ContextTenant, now)]
                         ELSE [b EXCEPT !.pc = "settled", !.fetched = FetchFulfilled(401)]
                    ELSE IF StartsWith(path, "/webchat/")
                    THEN [b EXCEPT !.pc = "settled",
                                   !.fetched = FetchFulfilled(WebChatRoute(path))]
                    ELSE IF path = "/health"
                    THEN [b EXCEPT !.pc = "settled", !.fetched = FetchFulfilled(200)]
                    ELSE [b EXCEPT !.pc = "settled", !.fetched = FetchFulfilled(404)]]
    /\ UNCHANGED <<now, counters, admits, llmRequest, routeVars, tenantTier, request,
                   pc, invoked, response, durableMessages, callVars, toolVars,
                   allowedTools, toolMessages, db, CACHE, inFlight, adapterVars,
                   provVars, orchVars, pipeVars, clientVars>>

\* rateLimitCheck: env.CACHE.get resolves; at or above the limit the call returns
\* the 429 response, below it the call awaits env.CACHE.put. A rejection leaves
\* rateLimitCheck and ApiGatewayWorker.fetch; the top-level fetch has returned the
\* worker's promise from inside its try block without awaiting it
RateGet(p) ==
    LET r == gateway[p] IN
    /\ r.pc = "get"
    /\ \E outcome \in Outcomes :
          gateway' =
             [gateway EXCEPT ![p] =
                 IF outcome = "fail"
                 THEN [r EXCEPT !.pc = "settled", !.check = CheckThrown,
                                !.raised = KvError, !.fetched = FetchRejected]
                 ELSE LET count == ParseCount(counters[r.key]) IN
                      IF count >= limit
                      THEN [r EXCEPT !.pc = "settled", !.count = count,
                                     !.check = Limited(now),
                                     !.fetched = FetchFulfilled(Limited(now).status)]
                      ELSE [r EXCEPT !.pc = "put", !.count = count]]
    /\ UNCHANGED <<now, counters, admits, llmRequest, routeVars, tenantTier, request,
                   pc, invoked, response, durableMessages, callVars, toolVars,
                   allowedTools, toolMessages, db, CACHE, inFlight, adapterVars,
                   provVars, orchVars, pipeVars, clientVars>>

\* rateLimitCheck: env.CACHE.put(key, String(count + 1)) resolves and the call
\* returns { ok: true }, ApiGatewayWorker.fetch answers by its route; or the put
\* rejects
RatePut(p) ==
    LET r == gateway[p] IN
    /\ r.pc = "put"
    /\ \E outcome \in Outcomes :
          IF outcome = "fail"
          THEN /\ gateway' = [gateway EXCEPT ![p] =
                                 [r EXCEPT !.pc = "settled", !.check = CheckThrown,
                                           !.raised = KvError, !.fetched = FetchRejected]]
               /\ UNCHANGED <<counters, admits>>
          ELSE /\ counters' = [counters EXCEPT ![r.key] = StoredCount(r.count + 1, now)]
               /\ admits' = [admits EXCEPT ![now] = @ + 1]
               /\ gateway' = [gateway EXCEPT ![p] =
                                 [r EXCEPT !.pc = "settled", !.check = Admitted,
                                           !.fetched = FetchFulfilled(ApiRoute(r.path))]]
    /\ UNCHANGED <<now, llmRequest, routeVars, tenantTier, request,
                   pc, invoked, response, durableMessages, callVars, toolVars,
                   allowedTools, toolMessages, db, CACHE, inFlight, adapterVars,
                   provVars, orchVars, pipeVars, clientVars>>

\* time passes; a value whose expirationTtl has run out is gone
ClockTick ==
    /\ now + Tick \in Instants
    /\ now' = now + Tick
    /\ counters' = [k \in DOMAIN counters |->
                       IF counters[k].present /\ counters[k].expiresAt <= now'
                       THEN NoCount ELSE counters[k]]
    /\ UNCHANGED <<admits, gateway, llmRequest, routeVars, tenantTier, request,
                   pc, invoked, response, durableMessages, callVars, toolVars,
                   allowedTools, toolMessages, db, CACHE, inFlight, adapterVars,
                   provVars, orchVars, pipeVars, clientVars>>

\* the gateway with no request of the tenant counted yet
InitGateway ==
    /\ env = [ANTHROPIC_API_KEY |-> FALSE, OPENAI_API_KEY |-> FALSE]
    /\ tenantTier = "starter"
    /\ request = [provider |-> None, hasTools |-> FALSE, stream |-> FALSE]
    /\ options = HandlerOptions(request, FALSE)
    /\ IdlePipeline
    /\ toolCalls = <<>>
    /\ toolResults = NotReturned
    /\ allowedTools = DefaultAllowedTools
    /\ toolMessages = <<>>
    /\ db = [sessions |-> <<>>, messages |-> <<>>]
    /\ CACHE = <<>>
    /\ inFlight = <<>>
    /\ llmRequest = [provider |-> None, model |-> None]
    /\ now = Tick

\* one client sending one request after another
InitSerial ==
    /\ InitGateway
    /\ counters = [k \in RateKeys |-> NoCount]
    /\ admits = [t \in Instants |-> 0]
    /\ gateway = [p \in {1} |-> IdleFetch(TRUE)]

\* two requests handled concurrently after any number of requests of the tenant
\* were admitted one after another at the first instant
InitConcurrent ==
    /\ InitGateway
    /\ \E admitted \in 0..limit :
          /\ counters = [k \in RateKeys |->
                            IF k = RateKey(ContextTenant, now) /\ admitted > 0
                            THEN StoredCount(admitted, now) ELSE NoCount]
          /\ admits = [t \in Instants |-> IF t = now THEN admitted ELSE 0]
    /\ gateway = [p \in {1, 2} |-> IdleFetch(FALSE)]

NextGateway ==
    \/ \E p \in DOMAIN gateway :
          \/ FetchBegin(p)
          \/ RateGet(p)
          \/ RatePut(p)
    \/ ClockTick

SpecSerial == InitSerial /\ [][NextGateway]_vars

SpecConcurrent == InitConcurrent /\ [][NextGateway]_vars

(***************************************************************************)
(* Properties of the gateway (requests one after another under SpecSerial, *)
(* concurrent requests under SpecConcurrent)                               *)
(***************************************************************************)

\* how many calls of rateLimitCheck returned ok at the instants in [from, to)
RECURSIVE AdmittedBetween(_, _)
AdmittedBetween(from, to) ==
    IF from >= to THEN 0
    ELSE (IF from \in Instants THEN admits[from] ELSE 0)
         + AdmittedBetween(from + Tick, to)

\* C31 as stated: with requests processed one after another, rateLimitCheck admits
\* at most 100 requests of the tenant in every interval of 60 seconds, wherever the
\* interval starts.
C31_SlidingWindow ==
    \A t \in Instants : AdmittedBetween(t, t + window * 1000) <= limit

\* C32 as stated: in every fixed 60-second window at most 100 calls of
\* rateLimitCheck for the tenant return ok, however the KV get and the KV put of
\* concurrently handled requests interleave, and no stored counter exceeds 100.
C32_AtMostLimitPerWindow ==
    /\ \A t \in Instants :
          AdmittedBetween(WindowOf(t) * window * 1000,
                          (WindowOf(t) + 1) * window * 1000) <= limit
    /\ \A k \in DOMAIN counters : ParseCount(counters[k]) <= limit

\* request p's call of rateLimitCheck returns in this step
CheckReturns(p) ==
    /\ gateway[p].pc \in {"get", "put"}
    /\ gateway'[p].pc = "settled"

\* C33 as stated: a call of rateLimitCheck that finds the counter at or above the
\* limit returns a 429 response, leaves the KV counters unchanged and reports as
\* reset time the start of the next window, later than the current time and at
\* most 60 seconds ahead; a call that admits the request leaves the counter of its
\* window exactly one higher than it was.
C33_LimitedOrCountedOnce ==
    [][\A p \in DOMAIN gateway :
          CheckReturns(p) =>
             /\ (gateway[p].pc = "get" /\ gateway'[p].check.ok # "thrown") =>
                   /\ gateway'[p].check.ok = "false"
                   /\ gateway'[p].count >= limit
                   /\ gateway'[p].check.status = 429
                   /\ counters' = counters
                   /\ gateway'[p].check.resets_at
                         = (WindowOf(now) + 1) * window * 1000
                   /\ gateway'[p].check.resets_at > now
                   /\ gateway'[p].check.resets_at <= now + window * 1000
             /\ gateway'[p].check.ok = "true" =>
                   ParseCount(counters'[gateway[p].key])
                      = ParseCount(counters[gateway[p].key]) + 1]_vars

\* C38 as stated: whenever an error is raised while a routed worker handles a
\* request, the promise the top-level fetch returned is fulfilled with the JSON
\* error response handleError builds for that error; it is never rejected.
C38_ErrorsBecomeResponses ==
    \A p \in DOMAIN gateway :
       /\ gateway[p].fetched.state # "rejected"
       /\ (gateway[p].pc = "settled" /\ gateway[p].raised # NoError) =>
             gateway[p].fetched = FetchFulfilled(HandleError(gateway[p].raised))

(***************************************************************************)
(* The model name handed to the provider adapter (core/streaming, plans)   *)
(***************************************************************************)

\* Model to provider mapping
MODEL_PROVIDERS ==
    [m \in {"@cf/meta/llama-3.1-8b-instruct-fp8-fast",
            "@cf/meta/llama-3.1-8b-instruct-awq",
            "@cf/meta/llama-3.3-70b-instruct-fp8-fast",
            "@cf/google/gemma-3-12b-it-fp8",
            "claude-haiku-4.5", "claude-sonnet-4.5", "claude-opus-4.6",
            "gpt-4o-mini", "gpt-4o"} |->
        CASE m \in {"claude-haiku-4.5", "claude-sonnet-4.5", "claude-opus-4.6"} ->
                "anthropic"
          [] m \in {"gpt-4o-mini", "gpt-4o"} -> "openai"
          [] OTHER -> "workers"]

\* PLANS[tier].includedModels
IncludedModels(tier) ==
    CASE tier = "starter" -> {"@cf/meta/llama-3.1-8b-instruct-fp8-fast"}
      [] tier = "pro" -> {"@cf/meta/llama-3.1-8b-instruct-fp8-fast",
                          "@cf/meta/llama-3.1-8b-instruct-awq"}
      [] tier = "business" -> {"@cf/meta/llama-3.1-8b-instruct-fp8-fast",
                               "@cf/meta/llama-3.1-8b-instruct-awq",
                               "@cf/meta/llama-3.3-70b-instruct-fp8-fast",
                               "@cf/google/gemma-3-12b-it-fp8"}
      [] tier = "enterprise" -> DOMAIN MODEL_PROVIDERS

IsModelAvailableForTier(model, tier) == model \in IncludedModels(tier)

\* what a caller puts in options.model: a model of the mapping, a default model of
\* the router, a name nobody knows, the empty string, or nothing
ModelOverrides ==
    DOMAIN MODEL_PROVIDERS \cup {GetDefaultModel(p) : p \in Providers}
       \cup {"my-model", "", None}

\* model: options.model || routing.model
LlmModel(model, decision) ==
    IF model # None /\ model # "" THEN model ELSE decision.model

\* streamChatCompletion or completeChat up to its call of llmStream or complete:
\* route as the handlers do, then hand the provider and the LLMRequest over
SendToAdapter ==
    /\ pc = "start"
    /\ \E model \in ModelOverrides :
          /\ options' = HandlerOptions(request, request.stream)
          /\ routing' = RouteRequest(options', env)
          /\ llmRequest' = [provider |-> routing'.provider,
                            model |-> LlmModel(model, routing')]
    /\ pc' = "sent"
    /\ UNCHANGED <<now, counters, admits, gateway, env, tenantTier, request, invoked,
                   response, durableMessages, callVars, toolVars, allowedTools,
                   toolMessages, db, CACHE, inFlight, adapterVars, provVars, orchVars,
                   pipeVars, clientVars>>

NextModel == SendToAdapter

\* a chat completion of every tenant tier, key configuration and request
SpecModel == Init /\ [][NextModel]_vars

\* C39 as stated: the model name handed to the provider adapter does not map to a
\* provider other than the routed one in MODEL_PROVIDERS and is one of the
\* includedModels of the tenant's tier, whatever model the caller supplied.
C39_ModelFitsProviderAndTier ==
    pc = "sent" =>
       /\ llmRequest.model \in DOMAIN MODEL_PROVIDERS =>
             MODEL_PROVIDERS[llmRequest.model] = llmRequest.provider
       /\ IsModelAvailableForTier(llmRequest.model, tenantTier)

====
